---------------------------- MODULE Spec2Model ----------------------------
(***************************************************************************)
(* Capture-to-encode pipeline of witness: the MockCapturer frame source    *)
(* (pkg/capture), the macOS DisplayCapturer, and the pipeline driver of    *)
(* examples/simple_gif.go, as interleaved goroutines over Go channels.     *)
(*                                                                         *)
(* Go channel semantics used throughout:                                   *)
(*   - a send on a buffered channel blocks while the buffer is full;       *)
(*   - a send on a closed channel and a close of a closed channel panic,   *)
(*     and a panic in any goroutine ends the whole program;                *)
(*   - a receive from a closed channel first drains the buffer, then       *)
(*     reports closure;                                                    *)
(*   - a select with several ready cases picks any one of them.            *)
(***************************************************************************)
EXTENDS Integers, Sequences, FiniteSets, TLC

(***************************************************************************)
(* Bounds of the model.                                                    *)
(***************************************************************************)
\* total number of Start()/Stop() calls the caller tasks make
MaxCalls == 3
\* ticker ticks taken in a session of at most two calls (the time horizon)
MaxTicks == 11
\* ticker ticks taken once a third call has been made (restarts)
MaxRestartTicks == 1
\* largest finite FramesToSend tried
MaxFramesToSend == 2

\* ticker ticks taken by the DisplayCapturer's loops in a session of at
\* most two calls
MaxDisplayTicks == 6
\* frame acquisitions that fail in captureFrame
MaxFailures == 1

\* the frame count at which the pipeline driver ends the session (stands for
\* maxFrames := 300)
MaxFrames == 3
\* interrupt signals the operating system delivers to the driver
MaxInterrupts == 1

\* calls a client makes on one GIFEncoder
MaxEncoderCalls == 3
\* largest width and height of a frame passed to the encoder
MaxSide == 2
\* the largest frame rate a GIFEncoder is constructed with
MaxFps == 200
\* region strings: the largest coordinate or size, and the most fields typed
MaxCoord == 10
MaxFields == 5
\* the largest GIFQuality value an encoder is constructed with
MaxQuality == 3

(***************************************************************************)
(* Program constants.                                                      *)
(***************************************************************************)
\* make(chan *Frame, 10) in NewMockCapturer
FrameCap == 10
\* make(chan *capture.Frame, 30) in NewDisplayCapturer
DisplayFrameCap == 30
\* make(chan error, 10) in NewDisplayCapturer
DisplayErrorCap == 10

Tasks == {"t1", "t2"}
Loops == 1..MaxCalls
\* the DisplayCapturer's callers: two free tasks and the pipeline's main
DisplayTasks == {"t1", "t2", "main"}

NoPanic == "none"
CloseOfClosed == "close of closed channel"
SendOnClosed == "send on closed channel"

VARIABLES
  \* ---- MockCapturer fields
  isRunning,      \* m.isRunning
  mu,             \* m.mu: "free" or the task holding it
  stopChan,       \* m.stopChan: TRUE once closed
  frames,         \* m.frames: the buffered frames, oldest first
  framesClosed,   \* m.frames has been closed
  errorsClosed,   \* m.errors has been closed
  FramesToSend,   \* m.FramesToSend (-1: infinite)
  SimulateError,  \* m.SimulateError != nil
  \* ---- goroutines
  loops,          \* the captureLoop goroutines launched so far
  nLoops,         \* how many were launched
  tasks,          \* the tasks calling Start()/Stop()
  panicked,       \* the runtime panic that ended the program, if any
  \* ---- environment and consumer
  ticks,          \* ticker ticks the loops have taken so far
  produced,       \* frames generated so far (the next frame's number - 1)
  received,       \* what the consumer read from Frames(), in order
  consumerDone,   \* the consumer saw Frames() closed
  \* ---- history
  calls,          \* calls invoked so far
  concurrent,     \* the two tasks' latest calls overlapped in time
  closes,         \* close operations executed on each channel
  \* ---- frames injected by a test
  custom,         \* frames built by GenerateCustomFrame and not yet sent
  sending,        \* the frame each task passed to SendFrame
  \* ---- history kept for the stop protocol
  late            \* frames enqueued after the stop signal was raised

VARIABLES
  \* ---- DisplayCapturer fields
  d_isRunning,    \* d.isRunning
  d_stream,       \* d.stream != nil
  d_stopChan,     \* d.stopChan: TRUE once closed
  d_frames,       \* d.frames: the buffered frames, oldest first
  d_framesClosed, \* d.frames has been closed
  d_errors,       \* d.errors: how many errors are buffered
  d_errorsClosed, \* d.errors has been closed
  \* ---- goroutines
  d_loops,        \* the captureLoop goroutines launched so far
  d_nLoops,       \* how many were launched
  d_tasks,        \* the tasks calling Start()/Stop()
  d_panicked,     \* the runtime panic that ended the program, if any
  \* ---- environment and consumers
  d_ticks,        \* ticker ticks the loops have taken so far
  d_produced,     \* frames captured so far
  d_failures,     \* acquisitions that failed so far
  d_received,     \* frames read from Frames(), in order
  d_errorsSeen,   \* errors read from Errors()
  d_calls         \* calls invoked so far

mockVars == <<isRunning, mu, stopChan, frames, framesClosed, errorsClosed,
              FramesToSend, SimulateError, loops, nLoops, tasks, panicked,
              ticks, produced, received, consumerDone, calls, concurrent, closes,
              custom, sending, late>>

displayVars == <<d_isRunning, d_stream, d_stopChan, d_frames, d_framesClosed,
                 d_errors, d_errorsClosed, d_loops, d_nLoops, d_tasks,
                 d_panicked, d_ticks, d_produced, d_failures, d_received,
                 d_errorsSeen, d_calls>>

\* examples/simple_gif.go: the pipeline driver over a DisplayCapturer and a
\* GIFEncoder
VARIABLES
  mainPc,         \* position of main ("off": no driver in this run)
  consPc,         \* position of the frame-consumer goroutine
  errPc,          \* position of the error goroutine
  sigChan,        \* signals buffered in sigChan (capacity 1)
  interrupts,     \* interrupt signals delivered so far
  p_frameCount,   \* the driver's frameCount
  p_frame,        \* the frame the consumer is handling (0: none)
  e_frames,       \* GIFEncoder.frames, the buffered sequence
  e_encoded,      \* the sequence Encode() handed to the serializer
  encodeCalls     \* calls of Encode() so far

pipeVars == <<mainPc, consPc, errPc, sigChan, interrupts, p_frameCount,
              p_frame, e_frames, e_encoded, encodeCalls>>

\* a GIFEncoder called by one client, and the file at its outputPath
VARIABLES
  enc_fps,        \* the fps NewGIFEncoder was called with
  enc_quality,    \* e.quality
  enc_delay,      \* e.delay
  enc_frames,     \* e.frames
  enc_delays,     \* e.delays
  enc_file,       \* the file at e.outputPath
  enc_log,        \* the calls made so far, with their results
  enc_estimate    \* the last EstimateSize() call: the frames then, and its result

encVars == <<enc_fps, enc_quality, enc_delay, enc_frames, enc_delays,
             enc_file, enc_log, enc_estimate>>

\* package selector: the region store in ~/.config/witness/regions.json
VARIABLES
  st_file,        \* the contents of regions.json
  st_saved,       \* name -> the region last saved under it and not deleted since
  st_failed,      \* some read or write of regions.json has failed so far
  st_last         \* the last call of the store, with its result

storeVars == <<st_file, st_saved, st_failed, st_last>>

\* package selector: a region string being formatted and parsed
VARIABLES
  rs_pc,          \* "new", "input" (a string is there), "parsed", "formatted"
  rs_fields,      \* the comma-separated fields of a typed string
  rs_src,         \* the region the string was formatted from, if any
  rs_in,          \* the string, a sequence of characters
  rs_out,         \* what ParseRegionString(rs_in) returned
  rs_back         \* what FormatRegionString returned for the parsed region

parseVars == <<rs_pc, rs_fields, rs_src, rs_in, rs_out, rs_back>>

selVars == <<storeVars, parseVars>>

vars == <<mockVars, displayVars, pipeVars, encVars, selVars>>

Alive == panicked = NoPanic

IdleLoop == [pc |-> "none", frameCount |-> 0, frame |-> 0, sawStop |-> FALSE]
IdleTask == [pc |-> "idle", op |-> "none", res |-> "none", pre |-> FALSE,
             loopsBefore |-> 0]

\* NewMockCapturer: an idle capturer with open, empty channels; a test
\* sets FramesToSend and SimulateError before the first call (NewMockCapturer
\* itself leaves FramesToSend = -1 and SimulateError = nil).
NewMockCapturer(toSend, err) ==
  /\ isRunning = FALSE
  /\ mu = "free"
  /\ stopChan = FALSE
  /\ frames = <<>>
  /\ framesClosed = FALSE
  /\ errorsClosed = FALSE
  /\ FramesToSend = toSend
  /\ SimulateError = err
  /\ loops = [l \in Loops |-> IdleLoop]
  /\ nLoops = 0
  /\ tasks = [t \in Tasks |-> IdleTask]
  /\ panicked = NoPanic
  /\ ticks = 0
  /\ produced = 0
  /\ received = <<>>
  /\ consumerDone = FALSE
  /\ calls = 0
  /\ concurrent = FALSE
  /\ closes = [c \in {"frames", "errors", "stop"} |-> 0]
  /\ custom = {}
  /\ sending = [t \in Tasks |-> 0]
  /\ late = 0

IdleDisplayLoop == [pc |-> "none", frame |-> 0]
IdleDisplayTask == [pc |-> "idle", op |-> "none", res |-> "none"]

\* NewDisplayCapturer: not running, no stream, open and empty channels
NewDisplayCapturer ==
  /\ d_isRunning = FALSE
  /\ d_stream = FALSE
  /\ d_stopChan = FALSE
  /\ d_frames = <<>>
  /\ d_framesClosed = FALSE
  /\ d_errors = 0
  /\ d_errorsClosed = FALSE
  /\ d_loops = [l \in Loops |-> IdleDisplayLoop]
  /\ d_nLoops = 0
  /\ d_tasks = [t \in DisplayTasks |-> IdleDisplayTask]
  /\ d_panicked = NoPanic
  /\ d_ticks = 0
  /\ d_produced = 0
  /\ d_failures = 0
  /\ d_received = <<>>
  /\ d_errorsSeen = 0
  /\ d_calls = 0

\* the state of the driver's variables; main is at pc
Pipeline(pc) ==
  /\ mainPc = pc
  /\ consPc = "none"
  /\ errPc = "none"
  /\ sigChan = 0
  /\ interrupts = 0
  /\ p_frameCount = 0
  /\ p_frame = 0
  /\ e_frames = <<>>
  /\ e_encoded = <<>>
  /\ encodeCalls = 0

\* regions.json does not exist
EmptyMap == [n \in {} |-> <<>>]
NoConfigFile == [state |-> "absent", regions |-> EmptyMap, default |-> ""]

\* no call of the store yet
NoStoreCall == [op |-> "none", name |-> "", region |-> <<>>, res |-> "none",
                ret |-> <<>>, names |-> {}, io |-> "none"]

\* a fresh HOME (setupTestConfig): no regions.json, nothing saved
EmptyStore ==
  /\ st_file = NoConfigFile
  /\ st_saved = EmptyMap
  /\ st_failed = FALSE
  /\ st_last = NoStoreCall

\* ParseRegionString has not returned yet
NotParsed == [err |-> "none", region |-> <<>>]

\* no region string yet
NoRegionString ==
  /\ rs_pc = "new"
  /\ rs_fields = <<>>
  /\ rs_src = <<>>
  /\ rs_in = <<>>
  /\ rs_out = NotParsed
  /\ rs_back = <<>>

\* no file at the output path
NoFile == [exists |-> FALSE, complete |-> FALSE, images |-> <<>>, delays |-> <<>>]

\* type GIFQuality int: QualityLow, QualityMedium, QualityHigh (iota)
QualityLow == 0
QualityMedium == 1
QualityHigh == 2

\* EstimateSize() has not been called
NoEstimate == [called |-> FALSE, count |-> 0, ret |-> 0]

\* NewGIFEncoder: delay := 100 / fps; if delay < 1 { delay = 1 }
NewDelayUnclamped(fps) == 100 \div fps
NewDelay(fps) == IF 100 \div fps < 1 THEN 1 ELSE 100 \div fps

\* NewGIFEncoder: an encoder with empty buffers; file is what the output
\* path holds at that time
NewGIFEncoder(fps, file, quality) ==
  /\ enc_fps = fps
  /\ enc_quality = quality
  /\ enc_delay = NewDelay(fps)
  /\ enc_frames = <<>>
  /\ enc_delays = <<>>
  /\ enc_file = file
  /\ enc_log = <<>>
  /\ enc_estimate = NoEstimate

\* a MockCapturer under test, configured before its first call
Init ==
  /\ \E toSend \in -1..MaxFramesToSend, err \in BOOLEAN :
        NewMockCapturer(toSend, err)
  /\ NewDisplayCapturer
  /\ Pipeline("off")
  /\ NewGIFEncoder(15, NoFile, QualityMedium)
  /\ EmptyStore /\ NoRegionString

(***************************************************************************)
(* Caller tasks: each call is invoked, takes m.mu, runs its body and       *)
(* returns through the deferred Unlock.                                    *)
(***************************************************************************)
UnchangedCapturer ==
  UNCHANGED <<frames, framesClosed, errorsClosed, FramesToSend,
              SimulateError, ticks, produced, received, consumerDone,
              custom, sending, late, displayVars, pipeVars, encVars, selVars>>

\* The time horizon: long for a session of one or two calls, short once the
\* capturer is called a third time (a restart), which keeps the model finite
\* and small.
Horizon(c) == IF c <= 2 THEN MaxTicks ELSE MaxRestartTicks

\* a task invokes Start() or Stop(); pre and loopsBefore record what the
\* capturer was at the invocation
Call(t, op) ==
  /\ Alive
  /\ tasks[t].pc = "idle"
  /\ calls < MaxCalls
  /\ ticks <= Horizon(calls + 1)
  /\ calls' = calls + 1
  /\ tasks' = [tasks EXCEPT ![t] = [pc |-> "lock", op |-> op, res |-> "none",
                                    pre |-> isRunning, loopsBefore |-> nLoops]]
  /\ concurrent' = (\E u \in Tasks \ {t} : tasks[u].pc # "idle")
  /\ UNCHANGED <<isRunning, mu, stopChan, loops, nLoops, panicked, closes>>
  /\ UnchangedCapturer

\* m.mu.Lock(): blocks while another task holds the mutex
LockNoExclusion(t) == mu' = t
Lock(t) == mu = "free" /\ mu' = t

\* Start, through the isRunning and SimulateError checks
StartCheckNotGuarded(t) ==
  /\ Alive
  /\ tasks[t].pc = "lock" /\ tasks[t].op = "Start"
  /\ Lock(t)
  /\ tasks' = [tasks EXCEPT ![t].pc = IF SimulateError THEN "unlock" ELSE "run",
                            ![t].res = IF SimulateError THEN "SimulateError"
                                       ELSE "none"]
  /\ UNCHANGED <<isRunning, stopChan, loops, nLoops, panicked, calls, concurrent, closes>>
  /\ UnchangedCapturer
StartCheckErrorFirst(t) ==
  /\ Alive
  /\ tasks[t].pc = "lock" /\ tasks[t].op = "Start"
  /\ Lock(t)
  /\ tasks' = [tasks EXCEPT ![t].pc = IF isRunning \/ SimulateError
                                        THEN "unlock" ELSE "run",
                            ![t].res = IF SimulateError THEN "SimulateError"
                                       ELSE IF isRunning THEN "AlreadyRunning"
                                       ELSE "none"]
  /\ UNCHANGED <<isRunning, stopChan, loops, nLoops, panicked, calls, concurrent, closes>>
  /\ UnchangedCapturer
StartCheck(t) ==
  /\ Alive
  /\ tasks[t].pc = "lock" /\ tasks[t].op = "Start"
  /\ Lock(t)
  /\ tasks' = [tasks EXCEPT ![t].pc = IF isRunning \/ SimulateError
                                        THEN "unlock" ELSE "run",
                            ![t].res = IF isRunning THEN "AlreadyRunning"
                                       ELSE IF SimulateError THEN "SimulateError"
                                       ELSE "none"]
  /\ UNCHANGED <<isRunning, stopChan, loops, nLoops, panicked, calls, concurrent, closes>>
  /\ UnchangedCapturer

\* go m.captureLoop(): a new goroutine, at its select with a fresh ticker
Launch == [loops EXCEPT ![nLoops + 1] = [IdleLoop EXCEPT !.pc = "select"]]

\* Start: m.isRunning = true; go m.captureLoop(); return nil
StartRunNoFlag(t) ==
  /\ Alive
  /\ tasks[t].pc = "run" /\ tasks[t].op = "Start"
  /\ loops' = Launch
  /\ nLoops' = nLoops + 1
  /\ tasks' = [tasks EXCEPT ![t].pc = "unlock", ![t].res = "ok"]
  /\ UNCHANGED <<isRunning, mu, stopChan, panicked, calls, concurrent, closes>>
  /\ UnchangedCapturer
StartRun(t) ==
  /\ Alive
  /\ tasks[t].pc = "run" /\ tasks[t].op = "Start"
  /\ isRunning' = TRUE
  /\ loops' = Launch
  /\ nLoops' = nLoops + 1
  /\ tasks' = [tasks EXCEPT ![t].pc = "unlock", ![t].res = "ok"]
  /\ UNCHANGED <<mu, stopChan, panicked, calls, concurrent, closes>>
  /\ UnchangedCapturer

\* Stop, through the isRunning check
StopCheckNotGuarded(t) ==
  /\ Alive
  /\ tasks[t].pc = "lock" /\ tasks[t].op = "Stop"
  /\ Lock(t)
  /\ tasks' = [tasks EXCEPT ![t].pc = "run"]
  /\ UNCHANGED <<isRunning, stopChan, loops, nLoops, panicked, calls, concurrent, closes>>
  /\ UnchangedCapturer
StopCheck(t) ==
  /\ Alive
  /\ tasks[t].pc = "lock" /\ tasks[t].op = "Stop"
  /\ Lock(t)
  /\ tasks' = [tasks EXCEPT ![t].pc = IF isRunning THEN "run" ELSE "unlock",
                            ![t].res = IF isRunning THEN "none" ELSE "NotRunning"]
  /\ UNCHANGED <<isRunning, stopChan, loops, nLoops, panicked, calls, concurrent, closes>>
  /\ UnchangedCapturer

\* Stop: close(m.stopChan); m.isRunning = false; return nil.
\* Closing the already closed stopChan panics.
StopRun(t) ==
  /\ Alive
  /\ tasks[t].pc = "run" /\ tasks[t].op = "Stop"
  /\ closes' = [closes EXCEPT !["stop"] = @ + 1]
  /\ IF stopChan
       THEN /\ panicked' = CloseOfClosed
            /\ UNCHANGED <<stopChan, isRunning, tasks>>
       ELSE /\ stopChan' = TRUE
            /\ isRunning' = FALSE
            /\ tasks' = [tasks EXCEPT ![t].pc = "unlock", ![t].res = "ok"]
            /\ UNCHANGED panicked
  /\ UNCHANGED <<mu, loops, nLoops, calls, concurrent>>
  /\ UnchangedCapturer

\* defer m.mu.Unlock() and the return to the caller
Return(t) ==
  /\ Alive
  /\ tasks[t].pc = "unlock"
  /\ mu' = "free"
  /\ tasks' = [tasks EXCEPT ![t].pc = "idle"]
  /\ UNCHANGED <<isRunning, stopChan, loops, nLoops, panicked, calls, concurrent, closes>>
  /\ UnchangedCapturer

(***************************************************************************)
(* captureLoop.                                                            *)
(***************************************************************************)
UnchangedByLoop ==
  UNCHANGED <<isRunning, mu, stopChan, FramesToSend, SimulateError, nLoops,
              tasks, received, consumerDone, calls, concurrent, custom,
              sending, displayVars, pipeVars, encVars, selVars>>

\* select, case <-m.stopChan: return
LoopSelectStopBreak(l) ==
  /\ Alive
  /\ loops[l].pc = "select"
  /\ stopChan
  /\ loops' = [loops EXCEPT ![l].sawStop = TRUE]
  /\ UNCHANGED <<frames, framesClosed, errorsClosed, ticks, produced, panicked, closes>>
  /\ UnchangedByLoop
LoopSelectStop(l) ==
  /\ Alive
  /\ loops[l].pc = "select"
  /\ stopChan
  /\ loops' = [loops EXCEPT ![l].pc = "closeErrors", ![l].sawStop = TRUE]
  /\ UNCHANGED <<frames, framesClosed, errorsClosed, ticks, produced, panicked, closes>>
  /\ UnchangedByLoop

\* if m.FramesToSend >= 0 && frameCount >= m.FramesToSend
EnoughFramesOffByOne(l) == FramesToSend >= 0 /\ loops[l].frameCount > FramesToSend
EnoughFrames(l) == FramesToSend >= 0 /\ loops[l].frameCount >= FramesToSend

\* select, case <-ticker.C, up to the send: return when enough frames were
\* sent, otherwise sleep FrameDelay and generate the next frame.  The ticker
\* fires every 1/FPS seconds and time passes freely between two steps, so a
\* tick may be ready at any select; when the stop signal is ready too the
\* select picks either case.
LoopSelectTick(l) ==
  /\ Alive
  /\ loops[l].pc = "select"
  /\ ticks < Horizon(calls)
  /\ ticks' = ticks + 1
  /\ IF EnoughFrames(l)
       THEN /\ loops' = [loops EXCEPT ![l].pc = "closeErrors"]
            /\ UNCHANGED produced
       ELSE /\ produced' = produced + 1
            /\ loops' = [loops EXCEPT ![l].pc = "send", ![l].frame = produced + 1]
  /\ UNCHANGED <<frames, framesClosed, errorsClosed, panicked, closes>>
  /\ UnchangedByLoop

\* m.frames <- frame; frameCount++
\* blocks while the buffer is full; panics when m.frames is closed
LoopSendDropping(l) ==
  /\ Alive
  /\ loops[l].pc = "send"
  /\ IF framesClosed
       THEN /\ panicked' = SendOnClosed
            /\ UNCHANGED <<frames, loops>>
       ELSE /\ frames' = IF Len(frames) < FrameCap
                           THEN Append(frames, loops[l].frame) ELSE frames
            /\ loops' = [loops EXCEPT ![l].pc = "select", ![l].frame = 0,
                                      ![l].frameCount = @ + 1]
            /\ UNCHANGED panicked
  /\ UNCHANGED <<framesClosed, errorsClosed, ticks, produced, closes>>
  /\ UnchangedByLoop
LoopSend(l) ==
  /\ Alive
  /\ loops[l].pc = "send"
  /\ IF framesClosed
       THEN /\ panicked' = SendOnClosed
            /\ UNCHANGED <<frames, loops>>
       ELSE /\ Len(frames) < FrameCap
            /\ frames' = Append(frames, loops[l].frame)
            /\ loops' = [loops EXCEPT ![l].pc = "select", ![l].frame = 0,
                                      ![l].frameCount = @ + 1]
            /\ UNCHANGED panicked
  /\ UNCHANGED <<framesClosed, errorsClosed, ticks, produced, closes>>
  /\ UnchangedByLoop

\* defer close(m.errors): the first deferred call to run on return
LoopCloseErrors(l) ==
  /\ Alive
  /\ loops[l].pc = "closeErrors"
  /\ closes' = [closes EXCEPT !["errors"] = @ + 1]
  /\ IF errorsClosed
       THEN /\ panicked' = CloseOfClosed
            /\ UNCHANGED <<errorsClosed, loops>>
       ELSE /\ errorsClosed' = TRUE
            /\ loops' = [loops EXCEPT ![l].pc = "closeFrames"]
            /\ UNCHANGED panicked
  /\ UNCHANGED <<frames, framesClosed, ticks, produced>>
  /\ UnchangedByLoop

\* defer close(m.frames), then defer ticker.Stop(): the goroutine ends
LoopCloseFrames(l) ==
  /\ Alive
  /\ loops[l].pc = "closeFrames"
  /\ closes' = [closes EXCEPT !["frames"] = @ + 1]
  /\ IF framesClosed
       THEN /\ panicked' = CloseOfClosed
            /\ UNCHANGED <<framesClosed, loops>>
       ELSE /\ framesClosed' = TRUE
            /\ loops' = [loops EXCEPT ![l].pc = "done"]
            /\ UNCHANGED panicked
  /\ UNCHANGED <<frames, errorsClosed, ticks, produced>>
  /\ UnchangedByLoop

captureLoop(l) ==
  /\ \/ LoopSelectStop(l)
     \/ LoopSelectTick(l)
     \/ LoopSend(l)
     \/ LoopCloseErrors(l)
     \/ LoopCloseFrames(l)
  /\ UNCHANGED late

(***************************************************************************)
(* The consumer of Frames(): for range capturer.Frames().                  *)
(***************************************************************************)
UnchangedByConsumer ==
  UNCHANGED <<isRunning, mu, stopChan, framesClosed, errorsClosed,
              FramesToSend, SimulateError, loops, nLoops, tasks, panicked,
              ticks, produced, calls, concurrent, closes, custom, sending,
              late, displayVars, pipeVars, encVars, selVars>>

\* the consumer receives the oldest buffered frame
Receive ==
  /\ Alive
  /\ ~consumerDone
  /\ frames # <<>>
  /\ received' = Append(received, Head(frames))
  /\ frames' = Tail(frames)
  /\ UNCHANGED consumerDone
  /\ UnchangedByConsumer

\* the consumer finds the channel closed and drained: its range loop ends
ReceiveClosed ==
  /\ Alive
  /\ ~consumerDone
  /\ frames = <<>>
  /\ framesClosed
  /\ consumerDone' = TRUE
  /\ UNCHANGED <<frames, received>>
  /\ UnchangedByConsumer

Next ==
  \/ \E t \in Tasks : \E op \in {"Start", "Stop"} : Call(t, op)
  \/ \E t \in Tasks : StartCheck(t)
  \/ \E t \in Tasks : StartRun(t)
  \/ \E t \in Tasks : StopCheck(t)
  \/ \E t \in Tasks : StopRun(t)
  \/ \E t \in Tasks : Return(t)
  \/ \E l \in Loops : captureLoop(l)
  \/ Receive
  \/ ReceiveClosed

Spec == Init /\ [][Next]_vars

\* a test assigns the exported field SimulateError between its calls:
\* an error, or nil again
SetSimulateError(err) ==
  /\ Alive
  /\ \A t \in Tasks : tasks[t].pc = "idle"
  /\ SimulateError # err
  /\ SimulateError' = err
  /\ UNCHANGED <<isRunning, mu, stopChan, frames, framesClosed, errorsClosed,
                 FramesToSend, loops, nLoops, tasks, panicked, ticks, produced,
                 received, consumerDone, calls, concurrent, closes, custom,
                 sending, late, displayVars, pipeVars, encVars, selVars>>

SimulateNext == Next \/ \E err \in BOOLEAN : SetSimulateError(err)

SimulateSpec == Init /\ [][SimulateNext]_vars

(***************************************************************************)
(* The same capturer with the frames enqueued after the stop signal        *)
(* counted in late.                                                        *)
(***************************************************************************)
captureLoopCounting(l) ==
  \/ /\ \/ LoopSelectStop(l)
        \/ LoopSelectTick(l)
        \/ LoopCloseErrors(l)
        \/ LoopCloseFrames(l)
     /\ UNCHANGED late
  \/ /\ LoopSend(l)
     /\ late' = IF stopChan /\ frames' # frames THEN late + 1 ELSE late

CountingNext ==
  \/ \E t \in Tasks : \E op \in {"Start", "Stop"} : Call(t, op)
  \/ \E t \in Tasks : StartCheck(t)
  \/ \E t \in Tasks : StartRun(t)
  \/ \E t \in Tasks : StopCheck(t)
  \/ \E t \in Tasks : StopRun(t)
  \/ \E t \in Tasks : Return(t)
  \/ \E l \in Loops : captureLoopCounting(l)
  \/ Receive
  \/ ReceiveClosed

CountingSpec == Init /\ [][CountingNext]_vars

(***************************************************************************)
(* Frames injected by a test: GenerateCustomFrame builds a frame, stamped  *)
(* with the time of its construction, and SendFrame enqueues it later.     *)
(* Frames are numbered in the order they are built, by the capture loops   *)
(* and by GenerateCustomFrame alike, so the numbers order the timestamps.  *)
(***************************************************************************)
UnchangedBySend ==
  UNCHANGED <<framesClosed, errorsClosed, FramesToSend, SimulateError, ticks,
              received, consumerDone, stopChan, isRunning, loops, nLoops,
              concurrent, closes, late, displayVars, pipeVars, encVars, selVars>>

\* a test calls GenerateCustomFrame: a new frame with Timestamp: time.Now()
\* (the call takes no lock and touches no field of the capturer)
GenerateCustomFrame ==
  /\ Alive
  /\ calls < MaxCalls
  /\ ticks <= Horizon(calls + 1)
  /\ calls' = calls + 1
  /\ produced' = produced + 1
  /\ custom' = custom \cup {produced + 1}
  /\ UNCHANGED <<frames, mu, tasks, panicked, sending>>
  /\ UnchangedBySend

\* the frame literal &Frame{}: its Timestamp is the zero time
ZeroFrame == 0

\* a task invokes SendFrame(frame) with a frame built earlier by
\* GenerateCustomFrame, or with &Frame{}
CallSendFrame(t, frame) ==
  /\ Alive
  /\ tasks[t].pc = "idle"
  /\ calls < MaxCalls
  /\ ticks <= Horizon(calls + 1)
  /\ frame \in custom \cup {ZeroFrame}
  /\ calls' = calls + 1
  /\ custom' = custom \ {frame}
  /\ sending' = [sending EXCEPT ![t] = frame]
  /\ tasks' = [tasks EXCEPT ![t] = [pc |-> "lock", op |-> "SendFrame",
                                    res |-> "none", pre |-> isRunning,
                                    loopsBefore |-> nLoops]]
  /\ UNCHANGED <<frames, mu, panicked, produced>>
  /\ UnchangedBySend

\* SendFrame, through the isRunning check
SendFrameCheck(t) ==
  /\ Alive
  /\ tasks[t].pc = "lock" /\ tasks[t].op = "SendFrame"
  /\ Lock(t)
  /\ tasks' = [tasks EXCEPT ![t].pc = IF isRunning THEN "send" ELSE "unlock",
                            ![t].res = IF isRunning THEN "none" ELSE "NotRunning"]
  /\ UNCHANGED <<frames, panicked, produced, calls, custom, sending>>
  /\ UnchangedBySend

\* SendFrame: select { case m.frames <- frame: return nil;
\*                     case <-time.After(time.Second): return error }
\* the send panics when m.frames is closed; the timeout is taken only when
\* the buffer stayed full for a second
SendFrameSelect(t) ==
  /\ Alive
  /\ tasks[t].pc = "send" /\ tasks[t].op = "SendFrame"
  /\ IF framesClosed
       THEN /\ panicked' = SendOnClosed
            /\ UNCHANGED <<frames, tasks>>
       ELSE /\ IF Len(frames) < FrameCap
                 THEN /\ frames' = Append(frames, sending[t])
                      /\ tasks' = [tasks EXCEPT ![t].pc = "unlock",
                                                ![t].res = "ok"]
                 ELSE /\ tasks' = [tasks EXCEPT ![t].pc = "unlock",
                                                ![t].res = "Timeout"]
                      /\ UNCHANGED frames
            /\ UNCHANGED panicked
  /\ UNCHANGED <<mu, produced, calls, custom, sending>>
  /\ UnchangedBySend

SendNext ==
  \/ Next
  \/ GenerateCustomFrame
  \/ \E t \in Tasks : \E frame \in custom \cup {ZeroFrame} :
        CallSendFrame(t, frame)
  \/ \E t \in Tasks : SendFrameCheck(t)
  \/ \E t \in Tasks : SendFrameSelect(t)

\* a MockCapturer driven by a test that also injects frames
SendSpec == Init /\ [][SendNext]_vars

(***************************************************************************)
(* Fairness.  The Go scheduler runs every runnable goroutine, so each step *)
(* of a capture loop that stays enabled is eventually taken; the tasks     *)
(* that call Start()/Stop() and the consumer are under no obligation.      *)
(***************************************************************************)
FairLoops == \A l \in Loops : WF_vars(captureLoop(l))

\* the capture loops are scheduled fairly
FairSpec == Spec /\ FairLoops

\* the capture loops are scheduled fairly and the consumer keeps draining
FairDrainSpec == Spec /\ FairLoops /\ WF_vars(Receive) /\ WF_vars(ReceiveClosed)

(***************************************************************************)
(* Properties of the MockCapturer.                                         *)
(***************************************************************************)
\* a successful Stop() has returned and no Start() has succeeded since
StopReturned ==
  /\ stopChan
  /\ ~isRunning
  /\ \A t \in Tasks : ~(tasks[t].op = "Stop" /\ tasks[t].pc \in {"run", "unlock"})

\* a capture loop enqueues a frame on m.frames in this step
Enqueue == \E l \in Loops : loops'[l].frameCount > loops[l].frameCount

\* C1: the frame channel, the error channel and the stop signal are each
\* closed at most once, over any sequence of Start() and Stop() calls.
C1_ClosedAtMostOnce == \A c \in DOMAIN closes : closes[c] <= 1

C3_EventuallyClosed == StopReturned ~> (framesClosed /\ errorsClosed)

\* C4: two concurrent Start() calls on an idle capturer: exactly one returns
\* success, the other AlreadyRunning, and exactly one loop is launched; two
\* concurrent Stop() calls on a running capturer: exactly one returns
\* success, the other NotRunning.  (The capturer is idle, or running, at
\* both invocations; the loops launched are counted from the later one.)
BothReturned(op) ==
  \A t \in Tasks : tasks[t].pc = "idle" /\ tasks[t].op = op
ExactlyOne(ok, failure) ==
  \E t \in Tasks : /\ tasks[t].res = ok
                   /\ \A u \in Tasks \ {t} : tasks[u].res = failure
C4_ConcurrentStartStop ==
  /\ ( /\ concurrent /\ BothReturned("Start") /\ ~SimulateError
       /\ \A t \in Tasks : ~tasks[t].pre )
     => /\ ExactlyOne("ok", "AlreadyRunning")
        /\ \E t \in Tasks :
              /\ nLoops = tasks[t].loopsBefore + 1
              /\ \A u \in Tasks : tasks[u].loopsBefore <= tasks[t].loopsBefore
  /\ ( /\ concurrent /\ BothReturned("Stop")
       /\ \A t \in Tasks : tasks[t].pre )
     => ExactlyOne("ok", "NotRunning")

\* C4 witness: two Stop() calls that overlapped on a running capturer have
\* both returned (after the Start() that made it run).
C4_Witness ==
  /\ concurrent /\ BothReturned("Stop")
  /\ \A t \in Tasks : tasks[t].pre

ClockStopped == ticks >= Horizon(calls)
C9_ExactlyNFrames ==
  /\ []( (FramesToSend >= 0 /\ ~stopChan) =>
           /\ Len(received) <= FramesToSend
           /\ produced <= FramesToSend
           /\ framesClosed => Len(received) + Len(frames) = FramesToSend
           /\ consumerDone => received = [i \in 1..FramesToSend |-> i] )
  /\ (nLoops >= 1 /\ FramesToSend >= 0)
        ~> (consumerDone \/ stopChan \/ ClockStopped)

\* C9 witness: never stopped, the consumer has seen the channel closed after
\* the largest finite number of frames
C9_Witness ==
  /\ ~stopChan /\ consumerDone
  /\ FramesToSend = MaxFramesToSend /\ Len(received) = FramesToSend

\* C10: the frame channel never holds more than its capacity, and every
\* frame a loop generated is received, buffered or pending in a send: none
\* is dropped or duplicated.
Pending == {loops[l].frame : l \in {k \in Loops : loops[k].pc = "send"}}
Range(q) == {q[i] : i \in DOMAIN q}
C10_Backpressure ==
  /\ Len(frames) <= FrameCap
  /\ Range(received) \cup Range(frames) \cup Pending = 1..produced
  /\ Len(received) + Len(frames) + Cardinality(Pending) = produced

\* C10 witness: the buffer is full and a capture loop is blocked on its send
C10_Witness ==
  /\ Len(frames) = FrameCap
  /\ \E l \in Loops : loops[l].pc = "send"
  /\ panicked = NoPanic

\* C12: after Stop() has raised the stop signal the capture loop enqueues at
\* most one more frame before it exits.
C12_AtMostOneAfterStop == late <= 1

\* task t passes the isRunning check of op in this step
Checks(t, op) ==
  tasks[t].op = op /\ tasks[t].pc = "lock" /\ tasks'[t].pc # "lock"
\* the call of op by task t returns res in this step
Returns(t, op, res) ==
  /\ tasks[t].op = op /\ tasks[t].res = res
  /\ tasks[t].pc = "unlock" /\ tasks'[t].pc = "idle"
\* the step leaves the capturer as it was
CapturerUntouched ==
  UNCHANGED <<isRunning, stopChan, frames, framesClosed, errorsClosed, loops,
              nLoops, closes, panicked>>

\* C13: Start() on a running capturer fails with AlreadyRunning and changes
\* nothing: isRunning stays true, no loop is launched, the channels are
\* untouched.
C13_StartWhileRunning ==
  [][\A t \in Tasks :
       /\ (Checks(t, "Start") /\ isRunning)
            => /\ tasks'[t].res = "AlreadyRunning"
               /\ tasks'[t].pc = "unlock"
               /\ isRunning'
               /\ CapturerUntouched
       /\ Returns(t, "Start", "AlreadyRunning")
            => (isRunning' /\ CapturerUntouched)]_vars

\* C13 witness: a Start() on the running capturer has returned AlreadyRunning
C13_Witness ==
  /\ isRunning /\ nLoops = 1
  /\ \E t \in Tasks : /\ tasks[t].pc = "idle" /\ tasks[t].op = "Start"
                       /\ tasks[t].res = "AlreadyRunning" /\ tasks[t].pre

\* C24: SendFrame on a capturer that is not running returns an error and
\* enqueues nothing; on a running capturer whose frame channel has free
\* capacity it enqueues exactly the given frame behind the buffered ones,
\* where the consumer receives it, and returns nil.
C24_SendFrameDelivers ==
  [][\A t \in Tasks :
       /\ (Checks(t, "SendFrame") /\ ~isRunning)
            => /\ tasks'[t].res = "NotRunning"
               /\ tasks'[t].pc = "unlock"
               /\ frames' = frames
       /\ (/\ tasks[t].op = "SendFrame" /\ tasks[t].pc = "send"
           /\ isRunning /\ Len(frames) < FrameCap
           /\ \/ tasks'[t].pc # "send"
              \/ (panicked' # panicked /\ loops' = loops))
            => /\ frames' = Append(frames, sending[t])
               /\ tasks'[t].res = "ok"
               /\ panicked' = NoPanic]_vars

\* C32: in no interleaving of Start, Stop, SendFrame and the capture loop is
\* a value sent on a frame or error channel that is closed; in particular a
\* SendFrame after the loop has exited at FramesToSend does not send on the
\* closed channel.
C32_MockNoSendOnClosed == panicked # SendOnClosed

\* a capture loop that has been launched and has not returned
ActiveLoop == \E l \in Loops : loops[l].pc \notin {"none", "done"}

\* C33: IsRunning(), which reads m.isRunning under the mutex, is true only
\* while a capture loop is active and the frame and error channels are open:
\* once the loop has exited, by the stop signal or at FramesToSend,
\* IsRunning() is false.
C33_RunningMeansLoopActive ==
  (Alive /\ mu = "free" /\ isRunning)
    => (ActiveLoop /\ ~framesClosed /\ ~errorsClosed)

\* C23: Start() on an idle capturer whose SimulateError is set returns that
\* error, leaves isRunning false and launches no loop; on a running capturer
\* Start() returns AlreadyRunning whether or not SimulateError is set.
C23_SimulatedStartFailure ==
  [][\A t \in Tasks :
       /\ (Checks(t, "Start") /\ SimulateError /\ ~isRunning)
            => /\ tasks'[t].res = "SimulateError"
               /\ tasks'[t].pc = "unlock"
               /\ ~isRunning'
               /\ CapturerUntouched
       /\ (Checks(t, "Start") /\ SimulateError /\ isRunning)
            => /\ tasks'[t].res = "AlreadyRunning"
               /\ tasks'[t].pc = "unlock"
               /\ CapturerUntouched
       /\ Returns(t, "Start", "SimulateError")
            => (~isRunning' /\ CapturerUntouched)]_vars

\* C23 witness: a Start() of the idle capturer has returned the simulated
\* error without launching a loop, and after a later successful Start() a
\* Start() with SimulateError set has returned AlreadyRunning
C23_Witness ==
  /\ SimulateError /\ isRunning /\ nLoops = 1
  /\ tasks["t1"].pc = "idle" /\ tasks["t1"].op = "Start"
  /\ tasks["t1"].res = "SimulateError" /\ ~tasks["t1"].pre
  /\ tasks["t1"].loopsBefore = 0
  /\ tasks["t2"].pc = "idle" /\ tasks["t2"].op = "Start"
  /\ tasks["t2"].res = "AlreadyRunning" /\ tasks["t2"].pre

\* C14: Stop() on a capturer that is not running fails with NotRunning and
\* changes nothing: the stop signal is not closed again and isRunning stays
\* false; and when a successful Stop() returns, isRunning is false.
C14_StopWhileNotRunning ==
  [][\A t \in Tasks :
       /\ (Checks(t, "Stop") /\ ~isRunning)
            => /\ tasks'[t].res = "NotRunning"
               /\ tasks'[t].pc = "unlock"
               /\ ~isRunning'
               /\ CapturerUntouched
       /\ Returns(t, "Stop", "NotRunning")
            => (~isRunning' /\ CapturerUntouched)
       /\ Returns(t, "Stop", "ok") => ~isRunning']_vars

\* C14 witness: after a successful Stop(), a second Stop() has returned
\* NotRunning and the stop signal was closed once
C14_Witness ==
  /\ stopChan /\ ~isRunning /\ closes["stop"] = 1
  /\ \E t \in Tasks : /\ tasks[t].pc = "idle" /\ tasks[t].op = "Stop"
                       /\ tasks[t].res = "NotRunning"

\* the frames enqueued on m.frames so far that carry a timestamp (all but
\* &Frame{}), in the order of delivery
Delivery == SelectSeq(received \o frames, LAMBDA f : f # ZeroFrame)

\* C11: frames are delivered in production order, with increasing
\* timestamps, none of them twice.
C11_ProductionOrder ==
  \A i, j \in DOMAIN Delivery : i < j => Delivery[i] < Delivery[j]

(***************************************************************************)
(* The macOS DisplayCapturer.  Start and Stop take no lock: their reads    *)
(* and writes of the fields interleave with each other and with the loop.  *)
(***************************************************************************)
\* no goroutine has panicked and main has not left the program
DisplayAlive == d_panicked = NoPanic /\ mainPc \notin {"done", "fatal"}

OnlyDisplay == UNCHANGED <<mockVars, pipeVars, encVars, selVars>>

DisplayHorizon(c) == IF c <= 2 THEN MaxDisplayTicks ELSE MaxRestartTicks

\* a free task invokes Start() or Stop() on the DisplayCapturer
DCall(t, op) ==
  /\ DisplayAlive
  /\ d_tasks[t].pc = "idle"
  /\ d_calls < MaxCalls
  /\ d_ticks <= DisplayHorizon(d_calls + 1)
  /\ d_calls' = d_calls + 1
  /\ d_tasks' = [d_tasks EXCEPT ![t] = [pc |-> "check", op |-> op, res |-> "none"]]
  /\ UNCHANGED <<d_isRunning, d_stream, d_stopChan, d_frames, d_framesClosed,
                 d_errors, d_errorsClosed, d_loops, d_nLoops, d_panicked,
                 d_ticks, d_produced, d_failures, d_received, d_errorsSeen>>
  /\ OnlyDisplay

\* Start: if d.isRunning { return error }
DStartCheck(t) ==
  /\ DisplayAlive
  /\ d_tasks[t].pc = "check" /\ d_tasks[t].op = "Start"
  /\ d_tasks' = [d_tasks EXCEPT
                   ![t].pc = IF d_isRunning THEN "ret" ELSE "create",
                   ![t].res = IF d_isRunning THEN "AlreadyRunning" ELSE "none"]
  /\ UNCHANGED <<d_isRunning, d_stream, d_stopChan, d_frames, d_framesClosed,
                 d_errors, d_errorsClosed, d_loops, d_nLoops, d_panicked,
                 d_ticks, d_produced, d_failures, d_received, d_errorsSeen,
                 d_calls>>
  /\ OnlyDisplay

\* go d.captureLoop()
DisplayLaunch ==
  [d_loops EXCEPT ![d_nLoops + 1] = [IdleDisplayLoop EXCEPT !.pc = "select"]]

\* Start: d.stream = createDisplayStream(...), which may yield nil;
\* otherwise d.isRunning = true; go d.captureLoop(); return nil
DStartRun(t) ==
  /\ DisplayAlive
  /\ d_tasks[t].pc = "create" /\ d_tasks[t].op = "Start"
  /\ \E created \in BOOLEAN :
       /\ d_stream' = created
       /\ IF created
            THEN /\ d_isRunning' = TRUE
                 /\ d_loops' = DisplayLaunch
                 /\ d_nLoops' = d_nLoops + 1
                 /\ d_tasks' = [d_tasks EXCEPT ![t].pc = "ret", ![t].res = "ok"]
            ELSE /\ d_tasks' = [d_tasks EXCEPT ![t].pc = "ret",
                                               ![t].res = "StreamFailure"]
                 /\ UNCHANGED <<d_isRunning, d_loops, d_nLoops>>
  /\ UNCHANGED <<d_stopChan, d_frames, d_framesClosed, d_errors,
                 d_errorsClosed, d_panicked, d_ticks, d_produced, d_failures,
                 d_received, d_errorsSeen, d_calls>>
  /\ OnlyDisplay

\* Stop: if !d.isRunning { return error }
DStopCheck(t) ==
  /\ DisplayAlive
  /\ d_tasks[t].pc = "check" /\ d_tasks[t].op = "Stop"
  /\ d_tasks' = [d_tasks EXCEPT
                   ![t].pc = IF d_isRunning THEN "signal" ELSE "ret",
                   ![t].res = IF d_isRunning THEN "none" ELSE "NotRunning"]
  /\ UNCHANGED <<d_isRunning, d_stream, d_stopChan, d_frames, d_framesClosed,
                 d_errors, d_errorsClosed, d_loops, d_nLoops, d_panicked,
                 d_ticks, d_produced, d_failures, d_received, d_errorsSeen,
                 d_calls>>
  /\ OnlyDisplay

\* Stop: close(d.stopChan)
DStopSignal(t) ==
  /\ DisplayAlive
  /\ d_tasks[t].pc = "signal"
  /\ IF d_stopChan
       THEN /\ d_panicked' = CloseOfClosed
            /\ UNCHANGED <<d_stopChan, d_tasks>>
       ELSE /\ d_stopChan' = TRUE
            /\ d_tasks' = [d_tasks EXCEPT ![t].pc = "stream"]
            /\ UNCHANGED d_panicked
  /\ UNCHANGED <<d_isRunning, d_stream, d_frames, d_framesClosed, d_errors,
                 d_errorsClosed, d_loops, d_nLoops, d_ticks, d_produced,
                 d_failures, d_received, d_errorsSeen, d_calls>>
  /\ OnlyDisplay

\* Stop: stop and clear d.stream; d.isRunning = false
DStopStream(t) ==
  /\ DisplayAlive
  /\ d_tasks[t].pc = "stream"
  /\ d_stream' = FALSE
  /\ d_isRunning' = FALSE
  /\ d_tasks' = [d_tasks EXCEPT ![t].pc = "closeFrames"]
  /\ UNCHANGED <<d_stopChan, d_frames, d_framesClosed, d_errors,
                 d_errorsClosed, d_loops, d_nLoops, d_panicked, d_ticks,
                 d_produced, d_failures, d_received, d_errorsSeen, d_calls>>
  /\ OnlyDisplay

\* Stop: close(d.frames)
DStopCloseFrames(t) ==
  /\ DisplayAlive
  /\ d_tasks[t].pc = "closeFrames"
  /\ IF d_framesClosed
       THEN /\ d_panicked' = CloseOfClosed
            /\ UNCHANGED <<d_framesClosed, d_tasks>>
       ELSE /\ d_framesClosed' = TRUE
            /\ d_tasks' = [d_tasks EXCEPT ![t].pc = "closeErrors"]
            /\ UNCHANGED d_panicked
  /\ UNCHANGED <<d_isRunning, d_stream, d_stopChan, d_frames, d_errors,
                 d_errorsClosed, d_loops, d_nLoops, d_ticks, d_produced,
                 d_failures, d_received, d_errorsSeen, d_calls>>
  /\ OnlyDisplay

\* Stop: close(d.errors); return nil
DStopCloseErrors(t) ==
  /\ DisplayAlive
  /\ d_tasks[t].pc = "closeErrors"
  /\ IF d_errorsClosed
       THEN /\ d_panicked' = CloseOfClosed
            /\ UNCHANGED <<d_errorsClosed, d_tasks>>
       ELSE /\ d_errorsClosed' = TRUE
            /\ d_tasks' = [d_tasks EXCEPT ![t].pc = "ret", ![t].res = "ok"]
            /\ UNCHANGED d_panicked
  /\ UNCHANGED <<d_isRunning, d_stream, d_stopChan, d_frames, d_framesClosed,
                 d_errors, d_loops, d_nLoops, d_ticks, d_produced,
                 d_failures, d_received, d_errorsSeen, d_calls>>
  /\ OnlyDisplay

\* the call of a free task returns
DReturn(t) ==
  /\ DisplayAlive
  /\ d_tasks[t].pc = "ret"
  /\ d_tasks' = [d_tasks EXCEPT ![t].pc = "idle"]
  /\ UNCHANGED <<d_isRunning, d_stream, d_stopChan, d_frames, d_framesClosed,
                 d_errors, d_errorsClosed, d_loops, d_nLoops, d_panicked,
                 d_ticks, d_produced, d_failures, d_received, d_errorsSeen,
                 d_calls>>
  /\ OnlyDisplay

UnchangedByDisplayLoop ==
  /\ UNCHANGED <<d_isRunning, d_stream, d_stopChan, d_framesClosed,
                 d_errorsClosed, d_nLoops, d_tasks, d_received, d_errorsSeen,
                 d_calls>>
  /\ OnlyDisplay

\* captureLoop: select, case <-d.stopChan: return
DLoopSelectStop(l) ==
  /\ DisplayAlive
  /\ d_loops[l].pc = "select"
  /\ d_stopChan
  /\ d_loops' = [d_loops EXCEPT ![l].pc = "done"]
  /\ UNCHANGED <<d_frames, d_errors, d_panicked, d_ticks, d_produced, d_failures>>
  /\ UnchangedByDisplayLoop

\* captureLoop: select, case <-ticker.C, and captureFrame up to its sends:
\* the acquisition fails (imageRef == 0 or context == 0), and captureFrame
\* is about to send an error, or it yields a frame the loop is about to send
DLoopSelectTick(l) ==
  /\ DisplayAlive
  /\ d_loops[l].pc = "select"
  /\ d_ticks < DisplayHorizon(d_calls)
  /\ d_ticks' = d_ticks + 1
  /\ \/ /\ d_produced' = d_produced + 1
        /\ d_loops' = [d_loops EXCEPT ![l].pc = "send", ![l].frame = d_produced + 1]
        /\ UNCHANGED d_failures
     \/ /\ d_failures < MaxFailures
        /\ d_failures' = d_failures + 1
        /\ d_loops' = [d_loops EXCEPT ![l].pc = "sendError"]
        /\ UNCHANGED d_produced
  /\ UNCHANGED <<d_frames, d_errors, d_panicked>>
  /\ UnchangedByDisplayLoop

\* captureFrame: d.errors <- fmt.Errorf(...); return nil, and the loop, with
\* frame == nil, goes back to its select
DLoopSendError(l) ==
  /\ DisplayAlive
  /\ d_loops[l].pc = "sendError"
  /\ IF d_errorsClosed
       THEN /\ d_panicked' = SendOnClosed
            /\ UNCHANGED <<d_errors, d_loops>>
       ELSE /\ d_errors < DisplayErrorCap
            /\ d_errors' = d_errors + 1
            /\ d_loops' = [d_loops EXCEPT ![l].pc = "select"]
            /\ UNCHANGED d_panicked
  /\ UNCHANGED <<d_frames, d_ticks, d_produced, d_failures>>
  /\ UnchangedByDisplayLoop

\* captureLoop: d.frames <- frame
DLoopSend(l) ==
  /\ DisplayAlive
  /\ d_loops[l].pc = "send"
  /\ IF d_framesClosed
       THEN /\ d_panicked' = SendOnClosed
            /\ UNCHANGED <<d_frames, d_loops>>
       ELSE /\ Len(d_frames) < DisplayFrameCap
            /\ d_frames' = Append(d_frames, d_loops[l].frame)
            /\ d_loops' = [d_loops EXCEPT ![l].pc = "select", ![l].frame = 0]
            /\ UNCHANGED d_panicked
  /\ UNCHANGED <<d_errors, d_ticks, d_produced, d_failures>>
  /\ UnchangedByDisplayLoop

displayCaptureLoop(l) ==
  \/ DLoopSelectStop(l)
  \/ DLoopSelectTick(l)
  \/ DLoopSendError(l)
  \/ DLoopSend(l)

UnchangedByDisplayConsumer ==
  /\ UNCHANGED <<d_isRunning, d_stream, d_stopChan, d_framesClosed,
                 d_errorsClosed, d_loops, d_nLoops, d_tasks, d_panicked,
                 d_ticks, d_produced, d_failures, d_calls>>
  /\ OnlyDisplay

\* a consumer receives the oldest buffered frame from Frames()
DReceive ==
  /\ DisplayAlive
  /\ d_frames # <<>>
  /\ d_received' = Append(d_received, Head(d_frames))
  /\ d_frames' = Tail(d_frames)
  /\ UNCHANGED <<d_errors, d_errorsSeen>>
  /\ UnchangedByDisplayConsumer

\* a consumer receives a buffered error from Errors()
DReceiveError ==
  /\ DisplayAlive
  /\ d_errors > 0
  /\ d_errors' = d_errors - 1
  /\ d_errorsSeen' = d_errorsSeen + 1
  /\ UNCHANGED <<d_frames, d_received>>
  /\ UnchangedByDisplayConsumer

FreeTasks == {"t1", "t2"}

DisplayNext ==
  \/ \E t \in FreeTasks : \E op \in {"Start", "Stop"} : DCall(t, op)
  \/ \E t \in FreeTasks : DStartCheck(t)
  \/ \E t \in FreeTasks : DStartRun(t)
  \/ \E t \in FreeTasks : DStopCheck(t)
  \/ \E t \in FreeTasks : DStopSignal(t)
  \/ \E t \in FreeTasks : DStopStream(t)
  \/ \E t \in FreeTasks : DStopCloseFrames(t)
  \/ \E t \in FreeTasks : DStopCloseErrors(t)
  \/ \E t \in FreeTasks : DReturn(t)
  \/ \E l \in Loops : displayCaptureLoop(l)
  \/ DReceive
  \/ DReceiveError

\* a DisplayCapturer called by free tasks (the MockCapturer stays as built)
DisplayInit ==
  /\ NewMockCapturer(-1, FALSE) /\ NewDisplayCapturer /\ Pipeline("off")
  /\ NewGIFEncoder(15, NoFile, QualityMedium)
  /\ EmptyStore /\ NoRegionString

DisplaySpec == DisplayInit /\ [][DisplayNext]_vars

(***************************************************************************)
(* Properties of the DisplayCapturer.                                      *)
(***************************************************************************)
\* C6: Stop() called from another task at any point of the loop's execution
\* never leads to a send on a closed frame or error channel.
C6_NoSendOnClosed == d_panicked # SendOnClosed

\* C22: a failed acquisition emits exactly one error and no frame, and the
\* loop continues: every failure so far is an error in the error channel,
\* an error already read from it, or the one error a loop is about to
\* send, and that pending send finds the error channel open, so that the
\* loop returns to its select and later ticks enqueue frames again.
C22_FailureEmitsOneError ==
  /\ d_failures = d_errors + d_errorsSeen
                  + Cardinality({l \in Loops : d_loops[l].pc = "sendError"})
  /\ \A l \in Loops : d_loops[l].pc = "sendError" => ~d_errorsClosed


\* both free tasks have called Start() and nothing else was called, so the
\* two calls met an idle capturer
TwoStartsOnIdle ==
  d_calls = 2 /\ \A t \in FreeTasks : d_tasks[t].op = "Start"

DisplayLoopsRunning ==
  Cardinality({l \in Loops : d_loops[l].pc \notin {"none", "done"}})

\* C34: two concurrent Start() calls on an idle DisplayCapturer do not both
\* succeed, and two concurrent Stop() calls on a running one do not both
\* pass the running check: no channel is closed twice and at most one
\* capture loop runs.
C34_DisplayStartStopExclusive ==
  /\ TwoStartsOnIdle => ~(\A t \in FreeTasks : d_tasks[t].res = "ok")
  /\ ~(\A t \in FreeTasks : d_tasks[t].op = "Stop"
                            /\ d_tasks[t].pc \notin {"idle", "check", "ret"})
  /\ d_panicked # CloseOfClosed
  /\ DisplayLoopsRunning <= 1

(***************************************************************************)
(* The pipeline driver, examples/simple_gif.go: main starts the capturer,  *)
(* launches a frame consumer and an error consumer, waits for a signal,    *)
(* stops the capturer and encodes.  When main returns the program ends.    *)
(***************************************************************************)
UnchangedCapturerByDriver ==
  UNCHANGED <<mockVars, d_isRunning, d_stream, d_stopChan, d_framesClosed,
              d_errorsClosed, d_loops, d_nLoops, d_panicked, d_ticks,
              d_produced, d_failures, encVars, selVars>>

\* main invokes capturer.Start() or capturer.Stop()
DriverCall(op) ==
  /\ d_calls' = d_calls + 1
  /\ d_tasks' = [d_tasks EXCEPT !["main"] = [pc |-> "check", op |-> op,
                                             res |-> "none"]]

\* main: capturer.Start()
PStart ==
  /\ DisplayAlive
  /\ mainPc = "init"
  /\ DriverCall("Start")
  /\ mainPc' = "starting"
  /\ UNCHANGED <<consPc, errPc, sigChan, interrupts, p_frameCount, p_frame,
                 e_frames, e_encoded, encodeCalls>>
  /\ UNCHANGED <<d_frames, d_errors, d_received, d_errorsSeen>>
  /\ UnchangedCapturerByDriver

\* main: Start() has returned; on an error log.Fatalf ends the program,
\* otherwise signal.Notify(sigChan, ...) and the two goroutines are launched
PStarted ==
  /\ DisplayAlive
  /\ mainPc = "starting"
  /\ d_tasks["main"].pc = "ret"
  /\ d_tasks' = [d_tasks EXCEPT !["main"].pc = "idle"]
  /\ IF d_tasks["main"].res = "ok"
       THEN /\ mainPc' = "wait"
            /\ consPc' = "range"
            /\ errPc' = "range"
       ELSE /\ mainPc' = "fatal"
            /\ UNCHANGED <<consPc, errPc>>
  /\ UNCHANGED <<sigChan, interrupts, p_frameCount, p_frame, e_frames,
                 e_encoded, encodeCalls>>
  /\ UNCHANGED <<d_frames, d_errors, d_received, d_errorsSeen, d_calls>>
  /\ UnchangedCapturerByDriver

\* the operating system delivers os.Interrupt or SIGTERM: the signal package
\* sends it to sigChan without blocking and drops it when the buffer is full
Interrupt ==
  /\ DisplayAlive
  /\ mainPc \notin {"off", "init", "starting"}
  /\ interrupts < MaxInterrupts
  /\ interrupts' = interrupts + 1
  /\ sigChan' = IF sigChan < 1 THEN sigChan + 1 ELSE sigChan
  /\ UNCHANGED <<mainPc, consPc, errPc, p_frameCount, p_frame, e_frames,
                 e_encoded, encodeCalls>>
  /\ UNCHANGED <<d_frames, d_errors, d_received, d_errorsSeen, d_calls,
                 d_tasks>>
  /\ UnchangedCapturerByDriver

\* main: <-sigChan, then capturer.Stop()
PWait ==
  /\ DisplayAlive
  /\ mainPc = "wait"
  /\ sigChan > 0
  /\ sigChan' = sigChan - 1
  /\ DriverCall("Stop")
  /\ mainPc' = "stopping"
  /\ UNCHANGED <<consPc, errPc, interrupts, p_frameCount, p_frame, e_frames,
                 e_encoded, encodeCalls>>
  /\ UNCHANGED <<d_frames, d_errors, d_received, d_errorsSeen>>
  /\ UnchangedCapturerByDriver

\* main: Stop() has returned (an error is only logged);
\* gifEncoder.FrameCount() begins
PStopped ==
  /\ DisplayAlive
  /\ mainPc = "stopping"
  /\ d_tasks["main"].pc = "ret"
  /\ d_tasks' = [d_tasks EXCEPT !["main"].pc = "idle"]
  /\ mainPc' = "inFrameCount"
  /\ UNCHANGED <<consPc, errPc, sigChan, interrupts, p_frameCount, p_frame,
                 e_frames, e_encoded, encodeCalls>>
  /\ UNCHANGED <<d_frames, d_errors, d_received, d_errorsSeen, d_calls>>
  /\ UnchangedCapturerByDriver

\* main: FrameCount() returns len(e.frames) and is printed;
\* gifEncoder.Encode() begins
PFrameCount ==
  /\ DisplayAlive
  /\ mainPc = "inFrameCount"
  /\ mainPc' = "inEncode"
  /\ encodeCalls' = encodeCalls + 1
  /\ UNCHANGED <<consPc, errPc, sigChan, interrupts, p_frameCount, p_frame,
                 e_frames, e_encoded>>
  /\ UNCHANGED <<d_frames, d_errors, d_received, d_errorsSeen, d_calls,
                 d_tasks>>
  /\ UnchangedCapturerByDriver

\* GIFEncoder.Encode: no frames, or a destination that cannot be created,
\* is an error, on which main's log.Fatalf ends the program; otherwise
\* e.frames is handed to the serializer
Encode ==
  /\ DisplayAlive
  /\ mainPc = "inEncode"
  /\ \E created \in BOOLEAN :
       IF e_frames = <<>> \/ ~created
         THEN /\ mainPc' = "fatal"
              /\ UNCHANGED e_encoded
         ELSE /\ mainPc' = "written"
              /\ e_encoded' = e_frames
  /\ UNCHANGED <<consPc, errPc, sigChan, interrupts, p_frameCount, p_frame,
                 e_frames, encodeCalls>>
  /\ UNCHANGED <<d_frames, d_errors, d_received, d_errorsSeen, d_calls,
                 d_tasks>>
  /\ UnchangedCapturerByDriver

\* main: Encode() has returned nil; the file size is printed and main
\* returns, which ends the program and every goroutine with it
PDone ==
  /\ DisplayAlive
  /\ mainPc = "written"
  /\ mainPc' = "done"
  /\ UNCHANGED <<consPc, errPc, sigChan, interrupts, p_frameCount, p_frame,
                 e_frames, e_encoded, encodeCalls>>
  /\ UNCHANGED <<d_frames, d_errors, d_received, d_errorsSeen, d_calls,
                 d_tasks>>
  /\ UnchangedCapturerByDriver

\* consumer: for frame := range capturer.Frames() receives a frame and
\* enters gifEncoder.AddFrame(frame)
PRecv ==
  /\ DisplayAlive
  /\ consPc = "range"
  /\ d_frames # <<>>
  /\ p_frame' = Head(d_frames)
  /\ d_frames' = Tail(d_frames)
  /\ d_received' = Append(d_received, Head(d_frames))
  /\ consPc' = "inAddFrame"
  /\ UNCHANGED <<mainPc, errPc, sigChan, interrupts, p_frameCount, e_frames,
                 e_encoded, encodeCalls>>
  /\ UNCHANGED <<d_errors, d_errorsSeen, d_calls, d_tasks>>
  /\ UnchangedCapturerByDriver

\* consumer: the range loop ends when Frames() is closed and drained
PRangeEnd ==
  /\ DisplayAlive
  /\ consPc = "range"
  /\ d_frames = <<>>
  /\ d_framesClosed
  /\ consPc' = "done"
  /\ UNCHANGED <<mainPc, errPc, sigChan, interrupts, p_frameCount, p_frame,
                 e_frames, e_encoded, encodeCalls>>
  /\ UNCHANGED <<d_frames, d_errors, d_received, d_errorsSeen, d_calls,
                 d_tasks>>
  /\ UnchangedCapturerByDriver

\* GIFEncoder.AddFrame appends the converted frame (a captured frame always
\* carries an image); the consumer then counts it and, at maxFrames, goes on
\* to signal main
AddFrame ==
  /\ DisplayAlive
  /\ consPc = "inAddFrame"
  /\ e_frames' = Append(e_frames, p_frame)
  /\ p_frame' = 0
  /\ p_frameCount' = p_frameCount + 1
  /\ consPc' = IF p_frameCount + 1 >= MaxFrames THEN "signal" ELSE "range"
  /\ UNCHANGED <<mainPc, errPc, sigChan, interrupts, e_encoded, encodeCalls>>
  /\ UNCHANGED <<d_frames, d_errors, d_received, d_errorsSeen, d_calls,
                 d_tasks>>
  /\ UnchangedCapturerByDriver

\* consumer: sigChan <- os.Interrupt; break
PSignalMax ==
  /\ DisplayAlive
  /\ consPc = "signal"
  /\ sigChan < 1
  /\ sigChan' = sigChan + 1
  /\ consPc' = "done"
  /\ UNCHANGED <<mainPc, errPc, interrupts, p_frameCount, p_frame, e_frames,
                 e_encoded, encodeCalls>>
  /\ UNCHANGED <<d_frames, d_errors, d_received, d_errorsSeen, d_calls,
                 d_tasks>>
  /\ UnchangedCapturerByDriver

\* error goroutine: for err := range capturer.Errors() logs one error
PErrRecv ==
  /\ DisplayAlive
  /\ errPc = "range"
  /\ d_errors > 0
  /\ d_errors' = d_errors - 1
  /\ d_errorsSeen' = d_errorsSeen + 1
  /\ UNCHANGED pipeVars
  /\ UNCHANGED <<d_frames, d_received, d_calls, d_tasks>>
  /\ UnchangedCapturerByDriver

\* error goroutine: the range loop ends when Errors() is closed and drained
PErrEnd ==
  /\ DisplayAlive
  /\ errPc = "range"
  /\ d_errors = 0
  /\ d_errorsClosed
  /\ errPc' = "done"
  /\ UNCHANGED <<mainPc, consPc, sigChan, interrupts, p_frameCount, p_frame,
                 e_frames, e_encoded, encodeCalls>>
  /\ UNCHANGED <<d_frames, d_errors, d_received, d_errorsSeen, d_calls,
                 d_tasks>>
  /\ UnchangedCapturerByDriver

main ==
  \/ PStart
  \/ DStartCheck("main")
  \/ DStartRun("main")
  \/ PStarted
  \/ PWait
  \/ DStopCheck("main")
  \/ DStopSignal("main")
  \/ DStopStream("main")
  \/ DStopCloseFrames("main")
  \/ DStopCloseErrors("main")
  \/ PStopped
  \/ PFrameCount
  \/ Encode
  \/ PDone

PipelineNext ==
  \/ main
  \/ Interrupt
  \/ \E l \in Loops : displayCaptureLoop(l)
  \/ PRecv
  \/ AddFrame
  \/ PSignalMax
  \/ PRangeEnd
  \/ PErrRecv
  \/ PErrEnd

\* the driver about to start a new DisplayCapturer
PipelineInit ==
  /\ NewMockCapturer(-1, FALSE) /\ NewDisplayCapturer /\ Pipeline("init")
  /\ NewGIFEncoder(15, NoFile, QualityMedium)
  /\ EmptyStore /\ NoRegionString

PipelineSpec == PipelineInit /\ [][PipelineNext]_vars

\* The driver is written against the capture.Capturer interface, whose
\* frames may come without an image (as MockCapturer.SendFrame(&Frame{})
\* delivers them).  consumer: AddFrame returns the invalid-frame error, which
\* is logged; continue
AddFrameFailedBreak ==
  /\ DisplayAlive
  /\ consPc = "inAddFrame"
  /\ p_frame' = 0
  /\ consPc' = "signal"
  /\ UNCHANGED <<mainPc, errPc, sigChan, interrupts, p_frameCount, e_frames,
                 e_encoded, encodeCalls>>
  /\ UNCHANGED <<d_frames, d_errors, d_received, d_errorsSeen, d_calls,
                 d_tasks>>
  /\ UnchangedCapturerByDriver
AddFrameFailed ==
  /\ DisplayAlive
  /\ consPc = "inAddFrame"
  /\ p_frame' = 0
  /\ consPc' = "range"
  /\ UNCHANGED <<mainPc, errPc, sigChan, interrupts, p_frameCount, e_frames,
                 e_encoded, encodeCalls>>
  /\ UNCHANGED <<d_frames, d_errors, d_received, d_errorsSeen, d_calls,
                 d_tasks>>
  /\ UnchangedCapturerByDriver

\* the driver over a source whose frames may be invalid
DriverNext == PipelineNext \/ AddFrameFailed

DriverSpec == PipelineInit /\ [][DriverNext]_vars

(***************************************************************************)
(* Properties of the pipeline driver.                                      *)
(***************************************************************************)
\* frames the capturer has delivered on Frames(): buffered there or received
Delivered == Range(d_frames) \cup Range(d_received)

\* C7: Encode() starts only after Stop() has returned and every frame
\* delivered on Frames() has been passed to AddFrame, and it is called at
\* most once in a session.
C7_StopDrainEncode ==
  (encodeCalls >= 1) =>
     /\ encodeCalls = 1
     /\ d_calls = 2 /\ d_tasks["main"].pc = "idle"
     /\ Delivered \subseteq Range(e_frames)

\* C8: AddFrame never executes while main is inside FrameCount() or Encode().
C8_EncoderCallsSerialized ==
  ~(consPc = "inAddFrame" /\ mainPc \in {"inFrameCount", "inEncode"})

\* the error goroutine takes an error from Errors() and logs it
ErrorLogged == d_errorsSeen' = d_errorsSeen + 1

\* the consumer's AddFrame call returns an error
AddFrameFails ==
  consPc = "inAddFrame" /\ consPc' # "inAddFrame" /\ e_frames' = e_frames

\* the source is not stopped, main stays where it is, no Encode() begins
\* and no signal is raised
SessionGoesOn ==
  /\ mainPc' = mainPc /\ sigChan' = sigChan /\ encodeCalls' = encodeCalls
  /\ d_tasks' = d_tasks /\ d_calls' = d_calls
  /\ d_isRunning' = d_isRunning /\ d_stopChan' = d_stopChan
  /\ d_loops' = d_loops /\ d_frames' = d_frames
  /\ d_framesClosed' = d_framesClosed /\ d_errorsClosed' = d_errorsClosed

\* an interrupt was delivered, or maxFrames frames were added successfully
SessionMayEnd ==
  interrupts >= 1 \/ (p_frameCount >= MaxFrames /\ Len(e_frames) >= MaxFrames)

\* C39: neither an error received from Errors() nor a failed AddFrame stops
\* the source or triggers Encode(): the consumers go on receiving; main
\* leaves its wait, stops the source and encodes only after an interrupt
\* signal or after maxFrames successfully added frames.
C39_ErrorsDoNotEndSession ==
  [][/\ ErrorLogged => (SessionGoesOn /\ errPc' = "range" /\ consPc' = consPc)
     /\ AddFrameFails
          => (SessionGoesOn /\ consPc' = "range" /\ errPc' = errPc
              /\ p_frameCount' = p_frameCount)
     /\ (mainPc = "wait" /\ mainPc' # "wait") => SessionMayEnd
     /\ d_tasks'["main"].op = "Stop" => SessionMayEnd
     /\ encodeCalls' > encodeCalls => SessionMayEnd
     /\ p_frameCount' = Len(e_frames')]_vars

\* a session in which an error was logged and the first frame received was
\* rejected by AddFrame has gone on to add maxFrames frames, and ended by
\* that count, without any interrupt
C39_Witness ==
  /\ d_errorsSeen >= 1
  /\ Len(d_received) > Len(e_frames)
  /\ d_received[1] \notin Range(e_frames)
  /\ p_frameCount = MaxFrames
  /\ interrupts = 0
  /\ mainPc = "done"

(***************************************************************************)
(* The GIFEncoder (pkg/encoder), called by one client: AddFrame, Encode    *)
(* and FrameCount in any order.  A frame is a pointer that may be nil to   *)
(* an image that may be nil; an image has a width and a height.            *)
(***************************************************************************)
\* AddFrame(nil)
NilFrame == [ptr |-> "nil", img |-> "nil", id |-> 0, w |-> 0, h |-> 0]

\* the frames a client may pass as the id-th call: nil, a frame whose Image
\* is nil, or a frame with an image of any size up to MaxSide
FrameArgs(id) ==
  {NilFrame} \cup {[ptr |-> "ok", img |-> "nil", id |-> id, w |-> 0, h |-> 0]}
  \cup {[ptr |-> "ok", img |-> "ok", id |-> id, w |-> w, h |-> h] :
          w \in 1..MaxSide, h \in 1..MaxSide}

\* AddFrame: frame == nil || frame.Image == nil
InvalidFrameNilOnly(frame) == frame.ptr = "nil"
InvalidFrame(frame) == frame.ptr = "nil" \/ frame.img = "nil"

\* image/color/palette: Plan9 has 256 colours, WebSafe has 216
Plan9Colors == 256
WebSafeColors == 216
\* palette.Plan9[:64]
LowColors == 64

\* getPalette: the palette for e.quality, as the array it is a slice of and
\* its length
getPaletteDefaultWebSafe(quality) ==
  IF quality = QualityLow THEN [of |-> "Plan9", colors |-> LowColors]
  ELSE IF quality = QualityMedium THEN [of |-> "Plan9", colors |-> Plan9Colors]
  ELSE [of |-> "WebSafe", colors |-> WebSafeColors]
getPalette(quality) ==
  IF quality = QualityLow THEN [of |-> "Plan9", colors |-> LowColors]
  ELSE IF quality = QualityMedium THEN [of |-> "Plan9", colors |-> Plan9Colors]
  ELSE IF quality = QualityHigh THEN [of |-> "WebSafe", colors |-> WebSafeColors]
  ELSE [of |-> "Plan9", colors |-> Plan9Colors]

\* convertToPaletted: a paletted image with the bounds of the source image
\* and the palette of e.getPalette()
convertToPaletted(frame) ==
  [src |-> frame.id, w |-> frame.w, h |-> frame.h,
   palette |-> getPalette(enc_quality)]

\* a file someone else left at the output path
OldFile == [exists |-> TRUE, complete |-> TRUE,
            images |-> <<[src |-> 0, w |-> 1, h |-> 1,
                          palette |-> [of |-> "Plan9", colors |-> Plan9Colors]]>>,
            delays |-> <<1>>]

\* os.Create: a new or truncated, empty file, or an error that leaves the
\* path as it was
osCreateClobbering(file, created) ==
  [exists |-> TRUE, complete |-> FALSE, images |-> <<>>, delays |-> <<>>]
osCreate(file, created) ==
  IF created
    THEN [exists |-> TRUE, complete |-> FALSE, images |-> <<>>, delays |-> <<>>]
    ELSE file

\* gif.EncodeAll takes the logical screen from the first image and rejects an
\* image block that lies out of these bounds
InBounds(images, i) == images[i].w <= images[1].w /\ images[i].h <= images[1].h

\* gif.EncodeAll(outFile, anim), with a writer that accepts k image blocks:
\* the blocks are written in order up to the first one that is out of bounds
\* or that the writer refuses
EncodeAll(images, delays, k) ==
  LET bad == {i \in 1..Len(images) : ~InBounds(images, i) \/ i > k}
      n == IF Len(images) # Len(delays) THEN 0
           ELSE IF bad = {} THEN Len(images)
           ELSE (CHOOSE i \in bad : \A j \in bad : i <= j) - 1
  IN [ok |-> n = Len(images) /\ Len(images) = Len(delays),
      images |-> SubSeq(images, 1, n),
      delays |-> SubSeq(delays, 1, n)]

\* Encode: the result and the file it leaves at the output path
EncodeOutcomeCreateFirst(images, delays, file, created, k) ==
  IF ~created
    THEN [res |-> "CreateFailed", file |-> osCreate(file, FALSE)]
  ELSE IF Len(images) = 0
    THEN [res |-> "NoFrames", file |-> osCreate(file, TRUE)]
  ELSE LET out == EncodeAll(images, delays, k)
       IN [res |-> IF out.ok THEN "ok" ELSE "EncodeFailed",
           file |-> [exists |-> TRUE, complete |-> out.ok,
                     images |-> out.images, delays |-> out.delays]]
EncodeOutcome(images, delays, file, created, k) ==
  IF Len(images) = 0
    THEN [res |-> "NoFrames", file |-> file]
  ELSE IF ~created
    THEN [res |-> "CreateFailed", file |-> osCreate(file, FALSE)]
  ELSE LET out == EncodeAll(images, delays, k)
       IN [res |-> IF out.ok THEN "ok" ELSE "EncodeFailed",
           file |-> [exists |-> TRUE, complete |-> out.ok,
                     images |-> out.images, delays |-> out.delays]]

\* what the environment did to the I/O of an Encode call
IoOf(images, created, k) ==
  IF ~created THEN "createFailed"
  ELSE IF k < Len(images) THEN "writeFailed"
  ELSE "ok"

UnchangedByEncoder ==
  UNCHANGED <<mockVars, displayVars, pipeVars, selVars, enc_fps, enc_quality,
              enc_delay, enc_estimate>>

\* GIFEncoder.AddFrame(frame)
EncAddFrameNoDelay(frame) ==
  /\ Len(enc_log) < MaxEncoderCalls
  /\ IF InvalidFrame(frame)
       THEN /\ enc_log' = Append(enc_log, [op |-> "AddFrame", frame |-> frame,
                                           res |-> "InvalidFrame", ret |-> 0,
                                           io |-> "none"])
            /\ UNCHANGED <<enc_frames, enc_delays>>
       ELSE /\ enc_frames' = Append(enc_frames, convertToPaletted(frame))
            /\ UNCHANGED enc_delays
            /\ enc_log' = Append(enc_log, [op |-> "AddFrame", frame |-> frame,
                                           res |-> "ok", ret |-> 0,
                                           io |-> "none"])
  /\ UNCHANGED enc_file
  /\ UnchangedByEncoder
EncAddFrame(frame) ==
  /\ Len(enc_log) < MaxEncoderCalls
  /\ IF InvalidFrame(frame)
       THEN /\ enc_log' = Append(enc_log, [op |-> "AddFrame", frame |-> frame,
                                           res |-> "InvalidFrame", ret |-> 0,
                                           io |-> "none"])
            /\ UNCHANGED <<enc_frames, enc_delays>>
       ELSE /\ enc_frames' = Append(enc_frames, convertToPaletted(frame))
            /\ enc_delays' = Append(enc_delays, enc_delay)
            /\ enc_log' = Append(enc_log, [op |-> "AddFrame", frame |-> frame,
                                           res |-> "ok", ret |-> 0,
                                           io |-> "none"])
  /\ UNCHANGED enc_file
  /\ UnchangedByEncoder

\* GIFEncoder.Encode(): the destination may or may not be creatable, and
\* the writer may stop accepting data after any number k of image blocks
EncEncodeClearing ==
  /\ Len(enc_log) < MaxEncoderCalls
  /\ \E created \in BOOLEAN, k \in 0..Len(enc_frames) :
       LET out == EncodeOutcome(enc_frames, enc_delays, enc_file, created, k)
       IN /\ enc_file' = out.file
          /\ enc_log' = Append(enc_log,
                 [op |-> "Encode", frame |-> NilFrame, res |-> out.res,
                  ret |-> 0, io |-> IoOf(enc_frames, created, k)])
          /\ IF out.res = "ok"
               THEN enc_frames' = <<>> /\ enc_delays' = <<>>
               ELSE UNCHANGED <<enc_frames, enc_delays>>
  /\ UnchangedByEncoder
EncEncode ==
  /\ Len(enc_log) < MaxEncoderCalls
  /\ \E created \in BOOLEAN, k \in 0..Len(enc_frames) :
       LET out == EncodeOutcome(enc_frames, enc_delays, enc_file, created, k)
       IN /\ enc_file' = out.file
          /\ enc_log' = Append(enc_log,
                 [op |-> "Encode", frame |-> NilFrame, res |-> out.res,
                  ret |-> 0, io |-> IoOf(enc_frames, created, k)])
  /\ UNCHANGED <<enc_frames, enc_delays>>
  /\ UnchangedByEncoder

\* GIFEncoder.FrameCount(): len(e.frames)
EncFrameCount ==
  /\ Len(enc_log) < MaxEncoderCalls
  /\ enc_log' = Append(enc_log, [op |-> "FrameCount", frame |-> NilFrame,
                                 res |-> "ok", ret |-> Len(enc_frames),
                                 io |-> "none"])
  /\ UNCHANGED <<enc_frames, enc_delays, enc_file>>
  /\ UnchangedByEncoder

\* EstimateSize: 0 for no frames, else the area of the first frame times
\* the number of frames, divided by 4 in integer arithmetic
EstimateSizeNoCompression(images) ==
  IF Len(images) = 0 THEN 0
  ELSE images[1].w * images[1].h * Len(images)
EstimateSize(images) ==
  IF Len(images) = 0 THEN 0
  ELSE (images[1].w * images[1].h * Len(images)) \div 4

\* GIFEncoder.EstimateSize()
EncEstimateSize ==
  /\ enc_estimate' = [called |-> TRUE, count |-> Len(enc_frames),
                      ret |-> EstimateSize(enc_frames)]
  /\ UNCHANGED <<mockVars, displayVars, pipeVars, selVars, enc_fps,
                 enc_quality, enc_delay, enc_frames, enc_delays, enc_file,
                 enc_log>>

EncoderNext ==
  \/ \E frame \in FrameArgs(Len(enc_log) + 1) : EncAddFrame(frame)
  \/ EncEncode
  \/ EncFrameCount
  \/ EncEstimateSize

\* a new encoder, for a slow and for a fast frame rate, with the output path
\* free or taken by an older file
EncoderInit ==
  /\ NewMockCapturer(-1, FALSE) /\ NewDisplayCapturer /\ Pipeline("off")
  /\ \E fps \in {15, 200}, file \in {NoFile, OldFile} : NewGIFEncoder(fps, file, QualityMedium)
  /\ EmptyStore /\ NoRegionString

EncoderSpec == EncoderInit /\ [][EncoderNext]_vars

(***************************************************************************)
(* Properties of the GIFEncoder                                            *)
(***************************************************************************)
\* a step that is one call of the encoder, and the record of that call
EncStep == Len(enc_log') = Len(enc_log) + 1
NewCall == enc_log'[Len(enc_log')]
LastCall == enc_log[Len(enc_log)]

\* an earlier Encode() of this encoder has written the artifact
Finalized == \E i \in DOMAIN enc_log :
               enc_log[i].op = "Encode" /\ enc_log[i].res = "ok"

\* C15: Encode() finalizes the encoder: once an Encode() has serialized the
\* buffer, every further AddFrame or Encode call fails with AlreadyFinalized
\* and neither the buffer nor the artifact changes again.
C15_FinalizedByEncode ==
  [][(EncStep /\ Finalized /\ NewCall.op \in {"AddFrame", "Encode"})
       => /\ NewCall.res = "AlreadyFinalized"
          /\ UNCHANGED <<enc_frames, enc_delays, enc_file>>]_vars

\* C16: Encode() with no buffered frame fails with NoFrames before any I/O:
\* the output path is left as it was (not created, not truncated) and the
\* encoder's frames, delays and delay setting are unchanged.
C16_EncodeNoFrames ==
  [][(EncStep /\ NewCall.op = "Encode" /\ Len(enc_frames) = 0)
       => /\ NewCall.res = "NoFrames"
          /\ enc_file' = enc_file
          /\ UNCHANGED <<enc_frames, enc_delays, enc_delay>>]_vars

\* an Encode() of an empty encoder has returned NoFrames although the
\* destination could have been created, and the older file is still there
C16_Witness ==
  /\ Len(enc_log) > 0
  /\ LastCall.op = "Encode" /\ LastCall.res = "NoFrames" /\ LastCall.io = "ok"
  /\ Len(enc_frames) = 0
  /\ enc_file = OldFile

\* C17: with at least one buffered frame and a destination that can be
\* created and written, Encode() succeeds and the artifact is non-empty and
\* holds exactly the buffered frames in insertion order, the i-th frame
\* with the i-th stored delay.
C17_EncodeWritesAllFrames ==
  [][(EncStep /\ NewCall.op = "Encode" /\ Len(enc_frames) >= 1
        /\ NewCall.io = "ok")
       => /\ NewCall.res = "ok"
          /\ enc_file'.exists /\ enc_file'.complete
          /\ Len(enc_file'.images) >= 1
          /\ enc_file'.images = enc_frames
          /\ enc_file'.delays = enc_delays]_vars

\* C18: an Encode() that fails after the destination has been created
\* leaves no file at the output path.
C18_NoPartialFile ==
  [][(EncStep /\ NewCall.op = "Encode" /\ NewCall.res = "EncodeFailed")
       => ~enc_file'.exists]_vars

\* C19: Encode() with a non-empty buffer and a destination that cannot be
\* created returns the creation error, writes nothing (the path is as it
\* was) and leaves the buffered frames and delays unchanged.
C19_CreateFailure ==
  [][(EncStep /\ NewCall.op = "Encode" /\ Len(enc_frames) >= 1
        /\ NewCall.io = "createFailed")
       => /\ NewCall.res = "CreateFailed"
          /\ enc_file' = enc_file
          /\ UNCHANGED <<enc_frames, enc_delays>>]_vars

\* an Encode() of a non-empty encoder has failed to create its destination
C19_Witness ==
  /\ Len(enc_log) > 0
  /\ LastCall.op = "Encode" /\ LastCall.res = "CreateFailed"
  /\ Len(enc_frames) >= 1
  /\ enc_file \in {NoFile, OldFile}

\* the number of AddFrame calls among the first n that passed a frame with
\* an image
ValidAdds(n) ==
  Cardinality({i \in 1..n : /\ enc_log[i].op = "AddFrame"
                            /\ enc_log[i].frame.ptr = "ok"
                            /\ enc_log[i].frame.img = "ok"})

\* C20: AddFrame(nil) and AddFrame of a frame with a nil image fail with
\* InvalidFrame and do not change FrameCount(); AddFrame of a valid frame
\* succeeds and adds exactly one: FrameCount() is the number of valid
\* additions made so far.
C20_AddFrameCounts ==
  /\ \A i \in DOMAIN enc_log :
       /\ enc_log[i].op = "AddFrame" =>
            enc_log[i].res = IF enc_log[i].frame.ptr = "nil"
                                \/ enc_log[i].frame.img = "nil"
                               THEN "InvalidFrame" ELSE "ok"
       /\ enc_log[i].op = "FrameCount" => enc_log[i].ret = ValidAdds(i)
  /\ Len(enc_frames) = ValidAdds(Len(enc_log))
  /\ Len(enc_delays) = Len(enc_frames)

\* a valid and an invalid AddFrame (non-nil frame, nil image) have been
\* made and FrameCount() has then returned 1
C20_Witness ==
  /\ Len(enc_log) > 0
  /\ LastCall.op = "FrameCount" /\ LastCall.ret = 1
  /\ \E i \in DOMAIN enc_log :
       /\ enc_log[i].res = "InvalidFrame" /\ enc_log[i].frame.ptr = "ok"
  /\ \E i \in DOMAIN enc_log :
       /\ enc_log[i].op = "AddFrame" /\ enc_log[i].res = "ok"

\* the area of the first buffered frame, 0 when there is none
FirstArea == IF Len(enc_frames) = 0 THEN 0 ELSE enc_frames[1].w * enc_frames[1].h
\* the estimate after one more frame of the first frame's size is added
EstimateWithOneMore == EstimateSize(Append(enc_frames, enc_frames[1]))

DelaysKept ==
  \A i \in DOMAIN enc_delays :
    i \in DOMAIN enc_delays' /\ enc_delays'[i] = enc_delays[i]

\* C35: for fps >= 1, in every reachable state the frames and the delays
\* have the same length and every stored delay is the delay computed at
\* construction, which is at least 1; no operation changes a stored delay.
C35_UniformDelay ==
  /\ [](/\ enc_fps >= 1
        /\ Len(enc_frames) = Len(enc_delays)
        /\ enc_delay >= 1
        /\ \A i \in DOMAIN enc_delays : enc_delays[i] = enc_delay)
  /\ [][DelaysKept /\ enc_delay' = enc_delay]_vars

\* an encoder for 200 frames per second holds two frames with the delay 1
\* each, after an Encode() and an EstimateSize() call
C35_Witness ==
  /\ enc_fps = 200 /\ enc_delay = 1
  /\ Len(enc_frames) = 2 /\ enc_delays = <<1, 1>>
  /\ enc_estimate.called
  /\ \E i \in DOMAIN enc_log : enc_log[i].op = "Encode"

\* the buffered frames stay where they are, as they are
FramesKept ==
  \A i \in DOMAIN enc_frames :
    i \in DOMAIN enc_frames' /\ enc_frames'[i] = enc_frames[i]

BuffersUnchanged == enc_frames' = enc_frames /\ enc_delays' = enc_delays

\* C36: FrameCount(), EstimateSize() and Encode() leave the buffered frames
\* and delays unchanged, and so does a failed AddFrame; over any sequence of
\* encoder operations the number of buffered frames never decreases and no
\* buffered entry is reordered or replaced.
C36_BufferOnlyGrows ==
  [][/\ Len(enc_frames') >= Len(enc_frames)
     /\ FramesKept /\ DelaysKept
     /\ (EncStep /\ NewCall.op \in {"FrameCount", "Encode"})
          => BuffersUnchanged
     /\ (EncStep /\ NewCall.op = "AddFrame" /\ NewCall.res # "ok")
          => BuffersUnchanged
     /\ enc_estimate' # enc_estimate => BuffersUnchanged]_vars

\* the buffer still holds the one frame added, after a failed AddFrame, a
\* successful Encode() and an EstimateSize() call
C36_Witness ==
  /\ Len(enc_log) = 3
  /\ enc_log[1].op = "AddFrame" /\ enc_log[1].res = "ok"
  /\ enc_log[2].op = "AddFrame" /\ enc_log[2].res = "InvalidFrame"
  /\ enc_log[3].op = "Encode" /\ enc_log[3].res = "ok"
  /\ enc_estimate = [called |-> TRUE, count |-> 1, ret |-> 1]
  /\ Len(enc_frames) = 1 /\ enc_frames[1].src = 1
  /\ Len(enc_delays) = 1

(***************************************************************************)
(* NewGIFEncoder for every frame rate, followed by AddFrame calls that     *)
(* store the delay computed by the constructor                             *)
(***************************************************************************)
\* createTestFrame: a frame with an image, here of one pixel
TestFrame(id) == [ptr |-> "ok", img |-> "ok", id |-> id, w |-> 1, h |-> 1]

DelayNext == EncAddFrame(TestFrame(Len(enc_log) + 1))

DelayInit ==
  /\ NewMockCapturer(-1, FALSE) /\ NewDisplayCapturer /\ Pipeline("off")
  /\ \E fps \in 1..MaxFps : NewGIFEncoder(fps, NoFile, QualityMedium)
  /\ EmptyStore /\ NoRegionString

DelaySpec == DelayInit /\ [][DelayNext]_vars

\* max(1, floor(100 / fps))
SpecDelay(fps) ==
  LET q == CHOOSE d \in 0..100 : d * fps <= 100 /\ (d + 1) * fps > 100
  IN IF q > 1 THEN q ELSE 1

\* C21: for every fps in 1..200 the encoder's delay is
\* max(1, floor(100 / fps)) hundredths of a second (6 for 15, 10 for 10,
\* 3 for 30, 1 for 200), and it is the delay stored with every frame.
C21_DelayFromFps ==
  /\ enc_delay = SpecDelay(enc_fps)
  /\ enc_fps = 15 => enc_delay = 6
  /\ enc_fps = 10 => enc_delay = 10
  /\ enc_fps = 30 => enc_delay = 3
  /\ enc_fps = 200 => enc_delay = 1
  /\ \A i \in DOMAIN enc_delays : enc_delays[i] = SpecDelay(enc_fps)

\* an encoder for 200 frames per second, whose quotient 100 / fps is 0, has
\* stored a frame with the minimum delay
C21_Witness ==
  /\ enc_fps = 200
  /\ enc_delay = 1
  /\ Len(enc_delays) >= 1 /\ enc_delays[1] = 1


(***************************************************************************)
(* NewGIFEncoder for every quality value, followed by AddFrame calls that  *)
(* quantize with the palette of getPalette()                               *)
(***************************************************************************)
PaletteNext == \E frame \in FrameArgs(Len(enc_log) + 1) : EncAddFrame(frame)

\* GIFQuality is an int: the three named levels and values out of range
PaletteInit ==
  /\ NewMockCapturer(-1, FALSE) /\ NewDisplayCapturer /\ Pipeline("off")
  /\ \E fps \in {15, 200}, quality \in -1..MaxQuality :
        NewGIFEncoder(fps, NoFile, quality)
  /\ EmptyStore /\ NoRegionString

PaletteSpec == PaletteInit /\ [][PaletteNext]_vars

\* the number of colours the specification gives for a quality level
SpecColors(quality) ==
  CASE quality = 0 -> 64
    [] quality = 2 -> 216
    [] OTHER -> 256

\* C31: the palette of every quantized frame is determined by the quality
\* level alone: 64 colours for Low, 256 for Medium, 216 for High, 256 for any
\* other value; it never has more than 256 colours.
C31_PaletteFromQuality ==
  \A i \in DOMAIN enc_frames :
    /\ enc_frames[i].palette.colors = SpecColors(enc_quality)
    /\ enc_frames[i].palette.colors <= 256

\* an encoder constructed with a quality value that is none of the three
\* levels has quantized two frames of different sizes with 256 colours
C31_Witness ==
  /\ enc_quality = 3
  /\ Len(enc_frames) = 2
  /\ enc_frames[1].w # enc_frames[2].w
  /\ \A i \in 1..2 : enc_frames[i].palette.colors = 256

(***************************************************************************)
(* The region store (package selector): every call reads regions.json      *)
(* into a RegionConfig with loadConfig, and those that change it write it  *)
(* back with saveConfig.  Calls are made one after another.                *)
(***************************************************************************)
\* a name that is not valid UTF-8 (the byte 0xff), and the name made of the
\* Unicode replacement character U+FFFD
BadName == "<ff>"
ReplName == "<fffd>"

\* the names the store is called with; the empty name is one of them
StoreNames == {"a", "", BadName}

\* the regions passed to SaveRegion: two valid ones and one of width 0
RegionArgs ==
  { [X |-> -1, Y |-> 0, Width |-> 1, Height |-> 2],
    [X |-> 0, Y |-> 0, Width |-> 2, Height |-> 1],
    [X |-> 0, Y |-> 0, Width |-> 0, Height |-> 1] }

\* Go maps: m[k] = v and delete(m, k)
MapPut(m, k, v) == [n \in DOMAIN m \cup {k} |-> IF n = k THEN v ELSE m[n]]
MapDelete(m, k) == [n \in DOMAIN m \ {k} |-> m[n]]

\* json.MarshalIndent writes an object key as a JSON string coerced to
\* valid UTF-8: each invalid byte becomes U+FFFD
JSONKey(name) == IF name = BadName THEN ReplName ELSE name

\* the regions object of the file written for the map m and read back: the
\* keys are written in sorted order (U+FFFD, bytes ef bf bd, before ff), and
\* of two equal keys json.Unmarshal keeps the later one
MarshalRegions(m) ==
  [k \in {JSONKey(n) : n \in DOMAIN m} |->
     IF k = ReplName /\ BadName \in DOMAIN m THEN m[BadName] ELSE m[k]]

\* regions.json is empty or cut short
CorruptFile == [state |-> "corrupt", regions |-> EmptyMap, default |-> ""]

\* loadConfig: an empty config when the file does not exist, an error when
\* it cannot be read (read = FALSE) or parsed, else the config it holds
loadConfig(file, read) ==
  IF file.state = "absent"
    THEN [err |-> FALSE, Regions |-> EmptyMap, Default |-> ""]
  ELSE IF ~read \/ file.state = "corrupt"
    THEN [err |-> TRUE, Regions |-> EmptyMap, Default |-> ""]
  ELSE [err |-> FALSE, Regions |-> file.regions, Default |-> file.default]

\* saveConfig: os.WriteFile of the marshalled config; the write succeeds
\* ("ok"), fails before the file is opened ("failed": the file is as it
\* was), or fails after the file was truncated ("torn")
saveConfig(file, Regions, Default, write) ==
  IF write = "ok"
    THEN [state |-> "json", regions |-> MarshalRegions(Regions),
          default |-> JSONKey(Default)]
  ELSE IF write = "failed" THEN file
  ELSE CorruptFile

WriteOutcomes == {"ok", "failed", "torn"}

UnchangedByStore ==
  UNCHANGED <<mockVars, displayVars, pipeVars, encVars, parseVars>>

StoreCall(op, name, region, res, ret, names, io) ==
  [op |-> op, name |-> name, region |-> region, res |-> res, ret |-> ret,
   names |-> names, io |-> io]

\* SaveRegion(name, region)
SaveRegion(name, region) ==
  /\ \E read \in BOOLEAN, write \in WriteOutcomes :
       LET config == loadConfig(st_file, read)
           ok == ~config.err /\ write = "ok"
       IN /\ st_file' = IF config.err THEN st_file
                        ELSE saveConfig(st_file,
                                        MapPut(config.Regions, name, region),
                                        config.Default, write)
          /\ st_saved' = IF ok THEN MapPut(st_saved, name, region) ELSE st_saved
          /\ st_failed' = (st_failed \/ ~ok)
          /\ st_last' = StoreCall("SaveRegion", name, <<region>>,
                                  IF ok THEN "ok" ELSE "ConfigError", <<>>, {},
                                  IF ok THEN "ok" ELSE "failed")
  /\ UnchangedByStore

\* LoadRegion(name)
LoadRegion(name) ==
  /\ \E read \in BOOLEAN :
       LET config == loadConfig(st_file, read)
           exists == name \in DOMAIN config.Regions
       IN /\ st_failed' = (st_failed \/ config.err)
          /\ st_last' = StoreCall("LoadRegion", name, <<>>,
                 IF config.err THEN "ConfigError"
                 ELSE IF exists THEN "ok" ELSE "NotFound",
                 IF ~config.err /\ exists THEN <<config.Regions[name]>> ELSE <<>>,
                 {}, IF config.err THEN "failed" ELSE "ok")
  /\ UNCHANGED <<st_file, st_saved>>
  /\ UnchangedByStore

\* ListRegions()
ListRegions ==
  /\ \E read \in BOOLEAN :
       LET config == loadConfig(st_file, read)
       IN /\ st_failed' = (st_failed \/ config.err)
          /\ st_last' = StoreCall("ListRegions", "", <<>>,
                 IF config.err THEN "ConfigError" ELSE "ok", <<>>,
                 DOMAIN config.Regions, IF config.err THEN "failed" ELSE "ok")
  /\ UNCHANGED <<st_file, st_saved>>
  /\ UnchangedByStore

\* GetRegionInfo(name): LoadRegion(name), then the name, width, height, x
\* and y that Sprintf puts into the text, in this order
GetRegionInfo(name) ==
  /\ \E read \in BOOLEAN :
       LET config == loadConfig(st_file, read)
           exists == name \in DOMAIN config.Regions
           region == config.Regions[name]
       IN /\ st_failed' = (st_failed \/ config.err)
          /\ st_last' = StoreCall("GetRegionInfo", name, <<>>,
                 IF config.err THEN "ConfigError"
                 ELSE IF exists THEN "ok" ELSE "NotFound",
                 IF ~config.err /\ exists
                   THEN <<name, region.Width, region.Height, region.X, region.Y>>
                   ELSE <<>>,
                 {}, IF config.err THEN "failed" ELSE "ok")
  /\ UNCHANGED <<st_file, st_saved>>
  /\ UnchangedByStore

\* DeleteRegion(name)
DeleteRegion(name) ==
  /\ \E read \in BOOLEAN, write \in WriteOutcomes :
       LET config == loadConfig(st_file, read)
           exists == name \in DOMAIN config.Regions
           ok == ~config.err /\ exists /\ write = "ok"
       IN /\ st_file' = IF config.err \/ ~exists THEN st_file
                        ELSE saveConfig(st_file, MapDelete(config.Regions, name),
                                        config.Default, write)
          /\ st_saved' = IF ok THEN MapDelete(st_saved, name) ELSE st_saved
          /\ st_failed' = (st_failed \/ config.err \/ (exists /\ write # "ok"))
          /\ st_last' = StoreCall("DeleteRegion", name, <<>>,
                 IF config.err THEN "ConfigError"
                 ELSE IF ~exists THEN "NotFound"
                 ELSE IF write = "ok" THEN "ok" ELSE "ConfigError",
                 <<>>, {},
                 IF config.err \/ (exists /\ write # "ok") THEN "failed" ELSE "ok")
  /\ UnchangedByStore

\* SetDefaultRegion(name)
SetDefaultRegion(name) ==
  /\ \E read \in BOOLEAN, write \in WriteOutcomes :
       LET config == loadConfig(st_file, read)
           exists == name \in DOMAIN config.Regions
       IN /\ st_file' = IF config.err \/ ~exists THEN st_file
                        ELSE saveConfig(st_file, config.Regions, name, write)
          /\ st_failed' = (st_failed \/ config.err \/ (exists /\ write # "ok"))
          /\ st_last' = StoreCall("SetDefaultRegion", name, <<>>,
                 IF config.err THEN "ConfigError"
                 ELSE IF ~exists THEN "NotFound"
                 ELSE IF write = "ok" THEN "ok" ELSE "ConfigError",
                 <<>>, {},
                 IF config.err \/ (exists /\ write # "ok") THEN "failed" ELSE "ok")
  /\ UNCHANGED st_saved
  /\ UnchangedByStore

\* GetDefaultRegion(): loadConfig, then LoadRegion(config.Default), which
\* loads the config again
GetDefaultRegion ==
  /\ \E read \in BOOLEAN, readAgain \in BOOLEAN :
       LET config == loadConfig(st_file, read)
           again == loadConfig(st_file, readAgain)
           exists == config.Default \in DOMAIN again.Regions
           res == IF config.err THEN "ConfigError"
                  ELSE IF config.Default = "" THEN "NoDefault"
                  ELSE IF again.err THEN "ConfigError"
                  ELSE IF exists THEN "ok" ELSE "NotFound"
       IN /\ st_failed' = (st_failed \/ res = "ConfigError")
          /\ st_last' = StoreCall("GetDefaultRegion", "", <<>>, res,
                 IF res = "ok" THEN <<again.Regions[config.Default]>> ELSE <<>>,
                 {}, IF res = "ConfigError" THEN "failed" ELSE "ok")
  /\ UNCHANGED <<st_file, st_saved>>
  /\ UnchangedByStore

StoreNext ==
  \/ \E name \in StoreNames, region \in RegionArgs : SaveRegion(name, region)
  \/ \E name \in StoreNames : LoadRegion(name)
  \/ ListRegions
  \/ \E name \in StoreNames : GetRegionInfo(name)
  \/ \E name \in StoreNames : DeleteRegion(name)
  \/ \E name \in StoreNames : SetDefaultRegion(name)
  \/ GetDefaultRegion

\* the store of a fresh HOME directory
StoreInit ==
  /\ NewMockCapturer(-1, FALSE) /\ NewDisplayCapturer /\ Pipeline("off")
  /\ NewGIFEncoder(15, NoFile, QualityMedium)
  /\ EmptyStore /\ NoRegionString

StoreSpec == StoreInit /\ [][StoreNext]_vars

(***************************************************************************)
(* Properties of the region store                                          *)
(***************************************************************************)
\* the names LoadRegion finds in the file as it is
Loadable == DOMAIN loadConfig(st_file, TRUE).Regions

\* C25: as long as no read or write has failed, LoadRegion(n) returns the
\* region most recently saved under n if n was not deleted since, and fails
\* with not-found otherwise; ListRegions returns exactly the names that can
\* be loaded.
C25_LoadReturnsLastSaved ==
  ~st_failed =>
    /\ st_last.op = "LoadRegion" =>
         IF st_last.name \in DOMAIN st_saved
           THEN /\ st_last.res = "ok"
                /\ st_last.ret = <<st_saved[st_last.name]>>
           ELSE st_last.res = "NotFound"
    /\ st_last.op = "ListRegions" =>
         (st_last.res = "ok" /\ st_last.names = Loadable)

\* this step is a call of op whose reads and writes succeeded
StoreStep(op) ==
  /\ st_last' # st_last
  /\ st_last'.op = op
  /\ st_last'.io = "ok"

\* C26: DeleteRegion and SetDefaultRegion of a name that is not stored fail
\* with not-found and leave the regions and the default as they were;
\* GetDefaultRegion fails when no default is set; and GetDefaultRegion right
\* after a successful SetDefaultRegion(n) of a saved name n returns the
\* region saved under n.
C26_DefaultAndNotFound ==
  [][/\ \A op \in {"DeleteRegion", "SetDefaultRegion"} :
          (StoreStep(op) /\ st_last'.name \notin DOMAIN st_file.regions)
            => (st_last'.res = "NotFound" /\ st_file' = st_file)
     /\ (StoreStep("GetDefaultRegion") /\ st_file.default = "")
            => (st_last'.res = "NoDefault" /\ st_last'.ret = <<>>)
     /\ (/\ StoreStep("GetDefaultRegion")
         /\ st_last.op = "SetDefaultRegion" /\ st_last.res = "ok"
         /\ st_last.name \in DOMAIN st_saved)
            => /\ st_last'.res = "ok"
               /\ st_last'.ret = <<st_saved[st_last.name]>>]_vars

\* C37: after any sequence of SaveRegion, DeleteRegion and SetDefaultRegion
\* calls the default name in the store is empty or the name of a stored
\* region, so that GetDefaultRegion never fails with not-found.
C37_DefaultIsStored ==
  /\ st_file.state = "json"
       => (st_file.default = "" \/ st_file.default \in DOMAIN st_file.regions)
  /\ st_last.op = "GetDefaultRegion" => st_last.res # "NotFound"

\* every entry but the one for name n is in the file after the step as it
\* was before, and the default name is unchanged
OnlyEntryChanged(n) ==
  /\ \A k \in (DOMAIN st_file.regions \cup DOMAIN st_file'.regions) \ {n} :
       /\ k \in DOMAIN st_file.regions /\ k \in DOMAIN st_file'.regions
       /\ st_file'.regions[k] = st_file.regions[k]
  /\ st_file'.default = st_file.default

\* C38: SaveRegion(n, r) and DeleteRegion(n) change only the entry for n and
\* leave every other region and the default name unchanged;
\* SetDefaultRegion changes only the default name; LoadRegion, ListRegions,
\* GetRegionInfo and GetDefaultRegion change nothing.
C38_StoreFrame ==
  [][/\ \A op \in {"SaveRegion", "DeleteRegion"} :
          StoreStep(op) => OnlyEntryChanged(st_last'.name)
     /\ StoreStep("SetDefaultRegion")
          => st_file'.regions = st_file.regions
     /\ st_last'.op \in {"LoadRegion", "ListRegions", "GetRegionInfo",
                         "GetDefaultRegion"}
          => st_file' = st_file]_vars

\* C29: no region held in the store, and none returned by LoadRegion or
\* GetDefaultRegion, has a width or a height that is not positive.
C29_StoredRegionsArePositive ==
  /\ \A n \in DOMAIN st_file.regions :
       st_file.regions[n].Width > 0 /\ st_file.regions[n].Height > 0
  /\ \A i \in DOMAIN st_last.ret :
       st_last.ret[i].Width > 0 /\ st_last.ret[i].Height > 0

(***************************************************************************)
(* ParseRegionString and FormatRegionString (pkg/selector/selector.go).    *)
(* A string is a sequence of characters.                                   *)
(***************************************************************************)
DigitChars == <<"0", "1", "2", "3", "4", "5", "6", "7", "8", "9">>
IsDigit(c) == \E d \in DOMAIN DigitChars : DigitChars[d] = c
DigitValue(c) == (CHOOSE d \in DOMAIN DigitChars : DigitChars[d] = c) - 1

\* fmt.Sprintf("%d", n): a minus sign for a negative number, then the
\* decimal digits
RECURSIVE Decimal(_)
Decimal(n) ==
  IF n < 10 THEN <<DigitChars[n + 1]>>
  ELSE Decimal(n \div 10) \o <<DigitChars[(n % 10) + 1]>>
ItoaNoSign(n) == IF n < 0 THEN Decimal(-n) ELSE Decimal(n)
Itoa(n) == IF n < 0 THEN <<"-">> \o Decimal(-n) ELSE Decimal(n)

\* FormatRegionString: "" for nil, else Sprintf("%d,%d,%d,%d", ...); a
\* region pointer is <<>> (nil) or <<r>>
FormatRegionString(r) ==
  IF r = <<>> THEN <<>>
  ELSE Itoa(r[1].X) \o <<",">> \o Itoa(r[1].Y) \o <<",">>
       \o Itoa(r[1].Width) \o <<",">> \o Itoa(r[1].Height)

\* fmt scanning of a %d verb at position i: leading spaces are skipped, an
\* optional sign is accepted, then at least one decimal digit is needed;
\* the scan stops at the first character that is not a digit
RECURSIVE SkipSpace(_, _)
SkipSpace(s, i) ==
  IF i <= Len(s) /\ s[i] = " " THEN SkipSpace(s, i + 1) ELSE i
RECURSIVE ScanDigits(_, _)
ScanDigits(s, i) ==
  IF i <= Len(s) /\ IsDigit(s[i]) THEN ScanDigits(s, i + 1) ELSE i
RECURSIVE Atoi(_)
Atoi(t) ==
  IF t = <<>> THEN 0
  ELSE Atoi(SubSeq(t, 1, Len(t) - 1)) * 10 + DigitValue(t[Len(t)])
ScanInt(s, i) ==
  LET j == SkipSpace(s, i)
      k == IF j <= Len(s) /\ s[j] \in {"+", "-"} THEN j + 1 ELSE j
      e == ScanDigits(s, k)
      v == Atoi(SubSeq(s, k, e - 1))
  IN IF j > Len(s) THEN [err |-> "EOF", val |-> 0, next |-> j]
     ELSE IF e = k THEN [err |-> "ExpectedInteger", val |-> 0, next |-> k]
     ELSE [err |-> "none", val |-> IF s[j] = "-" THEN -v ELSE v, next |-> e]

\* fmt.Sscanf(s, "%d,%d,%d,%d", ...) from position i with the values vals
\* scanned so far: each comma of the format must be the next character of
\* the input; input left after the fourth number is not looked at
RECURSIVE Sscanf(_, _, _)
Sscanf(s, i, vals) ==
  LET r == ScanInt(s, i)
      v == Append(vals, r.val)
  IN IF r.err # "none" THEN [n |-> Len(vals), err |-> r.err, vals |-> vals]
     ELSE IF Len(v) = 4 THEN [n |-> 4, err |-> "none", vals |-> v]
     ELSE IF r.next > Len(s) THEN [n |-> Len(v), err |-> "EOF", vals |-> v]
     ELSE IF s[r.next] # "," THEN [n |-> Len(v), err |-> "NoMatch", vals |-> v]
     ELSE Sscanf(s, r.next + 1, v)

\* ParseRegionString(s)
ParseRegionString(s) ==
  LET sc == Sscanf(s, 1, <<>>)
  IN IF sc.err # "none" THEN [err |-> "InvalidFormat", region |-> <<>>]
     ELSE IF sc.n # 4 THEN [err |-> "WrongCount", region |-> <<>>]
     ELSE IF sc.vals[3] <= 0 \/ sc.vals[4] <= 0
       THEN [err |-> "NotPositive", region |-> <<>>]
     ELSE [err |-> "none",
           region |-> <<[X |-> sc.vals[1], Y |-> sc.vals[2],
                         Width |-> sc.vals[3], Height |-> sc.vals[4]]>>]

\* the fields a typed string is made of: integers, also with a sign, a
\* leading zero or a leading space, a word, nothing, and digits followed by
\* a letter
FieldTokens ==
  { <<"1">>, <<"-", "1">>, <<"0">>, <<" ", "1">>, <<"+", "2">>, <<"x">>,
    <<>>, <<"1", "x">> }

\* the fields joined by commas
RECURSIVE Join(_)
Join(fields) ==
  IF fields = <<>> THEN <<>>
  ELSE IF Len(fields) = 1 THEN fields[1]
  ELSE fields[1] \o <<",">> \o Join(Tail(fields))

UnchangedByParse ==
  UNCHANGED <<mockVars, displayVars, pipeVars, encVars, storeVars>>

\* a caller has a region, of any position and of any size from 0 up, and
\* formats it
FormatRegion(r) ==
  /\ rs_pc = "new"
  /\ rs_pc' = "input"
  /\ rs_src' = <<r>>
  /\ rs_in' = FormatRegionString(<<r>>)
  /\ UNCHANGED <<rs_fields, rs_out, rs_back>>
  /\ UnchangedByParse

\* a user types a string of comma-separated fields
TypeRegion(fields) ==
  /\ rs_pc = "new"
  /\ rs_pc' = "input"
  /\ rs_fields' = fields
  /\ rs_in' = Join(fields)
  /\ UNCHANGED <<rs_src, rs_out, rs_back>>
  /\ UnchangedByParse

\* ParseRegionString(rs_in)
ParseInput ==
  /\ rs_pc = "input"
  /\ rs_pc' = "parsed"
  /\ rs_out' = ParseRegionString(rs_in)
  /\ UNCHANGED <<rs_fields, rs_src, rs_in, rs_back>>
  /\ UnchangedByParse

\* FormatRegionString of the region that was parsed (nil after an error)
FormatParsed ==
  /\ rs_pc = "parsed"
  /\ rs_pc' = "formatted"
  /\ rs_back' = FormatRegionString(rs_out.region)
  /\ UNCHANGED <<rs_fields, rs_src, rs_in, rs_out>>
  /\ UnchangedByParse

ParseNext ==
  \/ /\ rs_pc = "new"
     /\ \E x, y \in -MaxCoord..MaxCoord, w, h \in 0..MaxCoord :
          FormatRegion([X |-> x, Y |-> y, Width |-> w, Height |-> h])
  \/ /\ rs_pc = "new"
     /\ \E n \in 0..MaxFields : \E fields \in [1..n -> FieldTokens] :
          TypeRegion(fields)
  \/ ParseInput
  \/ FormatParsed

ParseInit ==
  /\ NewMockCapturer(-1, FALSE) /\ NewDisplayCapturer /\ Pipeline("off")
  /\ NewGIFEncoder(15, NoFile, QualityMedium)
  /\ EmptyStore /\ NoRegionString

ParseSpec == ParseInit /\ [][ParseNext]_vars

(***************************************************************************)
(* Properties of the region strings                                        *)
(***************************************************************************)
\* C27: for every region r with Width > 0 and Height > 0 and any X and Y,
\* also negative, ParseRegionString(FormatRegionString(r)) succeeds and
\* returns r, and formatting the parsed region gives the canonical string
\* back.
C27_ParseFormatRoundTrip ==
  (rs_src # <<>> /\ rs_src[1].Width > 0 /\ rs_src[1].Height > 0) =>
    /\ rs_pc \in {"parsed", "formatted"} =>
         (rs_out.err = "none" /\ rs_out.region = rs_src)
    /\ rs_pc = "formatted" => rs_back = rs_in

\* a region with a negative X of two digits has been formatted, parsed and
\* formatted again
C27_Witness ==
  /\ rs_pc = "formatted"
  /\ rs_src = <<[X |-> -MaxCoord, Y |-> -1, Width |-> 1, Height |-> MaxCoord]>>
  /\ rs_in[1] = "-" /\ Len(rs_in) > 7
  /\ rs_out.region = rs_src
  /\ rs_back = rs_in

\* the whole field is one integer
IsIntegerField(f) ==
  ScanInt(f, 1).err = "none" /\ ScanInt(f, 1).next = Len(f) + 1

\* C28: ParseRegionString returns an error and no region when the string
\* has fewer than four fields, when one of the first four fields is not an
\* integer, or when the width or the height is not positive; fields after
\* the fourth do not change the result.
C28_ParseRejects ==
  (rs_pc \in {"parsed", "formatted"} /\ rs_src = <<>>) =>
    LET f == rs_fields
        malformed == Len(f) < 4 \/ \E i \in 1..4 : ~IsIntegerField(f[i])
    IN /\ malformed => (rs_out.err # "none" /\ rs_out.region = <<>>)
       /\ (/\ ~malformed
           /\ \/ ScanInt(f[3], 1).val <= 0
              \/ ScanInt(f[4], 1).val <= 0)
            => (rs_out.err # "none" /\ rs_out.region = <<>>)
       /\ Len(f) > 4 => rs_out = ParseRegionString(Join(SubSeq(f, 1, 4)))

=============================================================================
